---- MODULE Spec2Model ----
(***************************************************************************)
(* Verification model of the LLMap front end (freya117/LLMap).             *)
(*                                                                         *)
(* Part 1, geocoding: GeocodingService (frontend/utils/geocoding.js) and   *)
(* geocodeOCRResults (frontend/pages/index.js).  JavaScript runs one       *)
(* callback at a time, so every action below is the code between two       *)
(* awaits; the clock `now` is Date.now() in milliseconds.                  *)
(***************************************************************************)
EXTENDS Integers, Sequences, FiniteSets, TLC

VARIABLES
    now,              \* Date.now()
    lastRequestTime,  \* GeocodingService.lastRequestTime
    requestCount,     \* GeocodingService.requestCount
    pc,               \* per caller: position in its async function
    kind,             \* per caller: "service" (geocodeMultiple) or "page" (geocodeOCRResults)
    queue,            \* per caller: the addresses / ocrResults.locations it was given
    idx,              \* per caller: loop index i (1-based)
    wake,             \* per caller: the time its pending setTimeout is due
    sent,             \* per caller: the provider requests it has dispatched
    out,              \* per caller: results (service) or locations (page)
    \* OCRProcessor (the hook of OCRProcessor.jsx) and its processFiles runs
    ocrMode,          \* useState('frontend')
    isProcessing,     \* useState(false)
    progress,         \* useState(0)
    currentFile,      \* useState('')
    runPc,            \* per run: position in processFiles
    runFiles,         \* per run: the files it was given
    runMode,          \* per run: the ocrMode its closure holds
    runI,             \* per run: loop index i (1-based)
    runResults,       \* per run: let results = []
    delivered,        \* per run: what it handed to onOCRComplete / onError
    \* FileUpload.handleBackendOCRProcessing (components/FileUpload.jsx)
    upPc,             \* position in handleBackendOCRProcessing
    upFiles,          \* imageFiles
    isBackendProcessing,  \* useState(false)
    upStatus,         \* backendProgress.status
    upPercentage,     \* backendProgress.percentage
    intervalOn,       \* processingInterval is set and not cleared
    idleTimer,        \* a setTimeout that will set status 'idle' is pending
    fallbackTimer,    \* the setTimeout(.., 3000) that falls back to processFiles is pending
    upDelivered,      \* convertedResults handed to setOCRResults / onOCRComplete
    upError,          \* what handleBackendOCRProcessing gave setOCRError
    \* the two OCR engines, as the environment has them
    backendCan,       \* the backend: "text", "empty", "reject", "unhealthy", "unreachable"
    tesseractCan,     \* Tesseract.js in the browser: "text", "empty", "throw"
    \* location outputs (OCRAnalysisPanel.jsx, OCRTestPanel.jsx, MapView.jsx)
    exportFormat,     \* OCRAnalysisPanel: useState(null), extracted_content.locations
    geocodedLocations, \* MapView: useState([])
    emitted,          \* every location written to a GeoJSON file or handed to the map
    \* text processing (OCRProcessor: processFrontendOCRText, cleanAndDenoiseText)
    ocrTexts,         \* what worker.recognize returned, file by file: text and confidence
    textResults,      \* what processFrontendOCRText returned for them, in order
    recleaned,        \* cleanAndDenoiseText applied to the cleaned_text of each result
    \* candidate locations (OCRProcessor: extracted_info, processOCRResults)
    ocrResults,       \* unifiedResults.results: one result per file, with extracted_info
    processedResults, \* what processOCRResults returned for them
    \* evaluation (pages/index.js compareWithGroundTruth, OCRAnalysisPanel compareResults)
    groundTruth,      \* the ground-truth records
    extractions,      \* the names of the extracted locations, in order
    comparison,       \* what compareWithGroundTruth returned
    panelComparison,  \* what compareResults gave setComparison
    \* the page (pages/index.js Home) while geocodeOCRResults runs
    abandoned,        \* per caller: handleLoadTestData replaced the batch it is geocoding
    \* the region hint (the enhanced-geocoding script kept in backend/README.md)
    businessNames,    \* testBusinessNames
    searchQueries,    \* per business name: who built the query for it, and the query
    \* OCRPanel (components/OCRPanel.jsx)
    processingMode,   \* useState('backend')
    runWanted,        \* per run: the processingMode selected when the panel started it
    \* processFrontendOCR (OCRProcessor.jsx), file by file
    filePc,           \* per run: position in processFrontendOCR for the current file
    workers,          \* per run: the Tesseract workers createWorker has returned
    pending,          \* per run: what processFrontendOCR will return or throw after finally
    \* the file list of FileUpload (components/FileUpload.jsx)
    uploadedFiles,    \* useState([])
    dropped           \* the image files of the drop whose setTimeout(.., 500) was set

geoVars == <<now, lastRequestTime, requestCount, pc, kind, queue, idx, wake, sent, out>>

batchVars == <<ocrMode, isProcessing, progress, currentFile, runPc, runFiles, runMode,
               runI, runResults, delivered>>

uploadVars == <<upPc, upFiles, isBackendProcessing, upStatus, upPercentage, intervalOn,
                idleTimer, fallbackTimer, upDelivered, upError>>

engineVars == <<backendCan, tesseractCan>>

exportVars == <<exportFormat, geocodedLocations, emitted>>

textVars == <<ocrTexts, textResults, recleaned>>

dedupVars == <<ocrResults, processedResults>>

compareVars == <<groundTruth, extractions, comparison, panelComparison>>

cancelVars == <<abandoned>>

hintVars == <<businessNames, searchQueries>>

panelVars == <<processingMode, runWanted>>

workerVars == <<filePc, workers, pending>>

listVars == <<uploadedFiles, dropped>>

vars == <<geoVars, batchVars, uploadVars, engineVars, exportVars, textVars, dedupVars, compareVars, cancelVars, hintVars, panelVars, workerVars, listVars>>

----------------------------------------------------------------------------
(* Bounds of the model *)

MaxTicks == 4        \* clock ticks explored after the start
MaxBatch == 2        \* candidates per batch
MaxFiles == 2        \* files per processFiles run
MaxText == 4         \* characters of a recognized text
MaxChunks == 2       \* recognized texts handed to processFrontendOCRText
MaxNames == 2        \* names one pattern group finds in one text
MaxTruth == 2        \* ground-truth records of a comparison
MaxFound == 2        \* extracted locations of a comparison
MaxWords == 3        \* words of a business name

(* Program constants *)

MIN_INTERVAL == 1000
PAGE_DELAY == 1000

StepMs == MIN_INTERVAL \div 2          \* granularity of the modelled clock
Epoch == 2 * MIN_INTERVAL              \* Date.now() at start: far more than 1000 after 0
EndOfTime == Epoch + MaxTicks * StepMs

Callers == {"A", "B"}
Queries == {"Quinault rain forest", "Olympic natio"}
NOMINATIM == "nominatim.openstreetmap.org"

----------------------------------------------------------------------------
(* parseFloat on the provider's strings.  A string is a sequence of        *)
(* characters; a number is kept in tenths of a unit; NaN is its own value. *)

NaN == [nan |-> TRUE, val |-> 0]
Num(v) == [nan |-> FALSE, val |-> v]

Abs(x) == IF x < 0 THEN 0 - x ELSE x

Digits == {"0", "1", "2", "3", "4", "5", "6", "7", "8", "9"}

DigitVal(ch) ==
    CASE ch = "0" -> 0 [] ch = "1" -> 1 [] ch = "2" -> 2 [] ch = "3" -> 3
      [] ch = "4" -> 4 [] ch = "5" -> 5 [] ch = "6" -> 6 [] ch = "7" -> 7
      [] ch = "8" -> 8 [] ch = "9" -> 9

RECURSIVE SkipSpace(_)
SkipSpace(s) == IF s # <<>> /\ Head(s) = " " THEN SkipSpace(Tail(s)) ELSE s

RECURSIVE DigitRun(_)
DigitRun(s) == IF s # <<>> /\ Head(s) \in Digits THEN 1 + DigitRun(Tail(s)) ELSE 0

RECURSIVE ToNat(_)
ToNat(s) == IF s = <<>> THEN 0 ELSE ToNat(SubSeq(s, 1, Len(s) - 1)) * 10 + DigitVal(s[Len(s)])

ParseFloat(s) ==
    LET t == SkipSpace(s)
        signed == t # <<>> /\ Head(t) \in {"-", "+"}
        neg == t # <<>> /\ Head(t) = "-"
        u == IF signed THEN Tail(t) ELSE t
        n == DigitRun(u)
        hasFrac == Len(u) >= n + 2 /\ u[n + 1] = "." /\ u[n + 2] \in Digits
        tenths == ToNat(SubSeq(u, 1, n)) * 10 + (IF hasFrac THEN DigitVal(u[n + 2]) ELSE 0)
    IN  IF n = 0 /\ ~hasFrac THEN NaN
        ELSE Num(IF neg THEN 0 - tenths ELSE tenths)

----------------------------------------------------------------------------
(* What the provider may answer to one request *)

(* importance is the provider's number as JavaScript prints it; <<>> is a  *)
(* place without the field (undefined)                                      *)
RawPlaces ==
    { [lon |-> <<"-", "1", "2", "3", ".", "8">>, lat |-> <<"4", "7", ".", "5">>,
       importance |-> <<"1", ".", "2">>],
      [lon |-> <<"2", "0", "0">>,               lat |-> <<"4", "7", ".", "5">>,
       importance |-> <<"0", ".", "7">>],
      [lon |-> <<"n", "/", "a">>,               lat |-> <<"4", "7", ".", "5">>,
       importance |-> <<>>] }

Responses ==
    { [type |-> "throw", lon |-> <<>>, lat |-> <<>>, importance |-> <<>>],
      [type |-> "empty", lon |-> <<>>, lat |-> <<>>, importance |-> <<>>] }
    \cup { [type |-> "hit", lon |-> p.lon, lat |-> p.lat, importance |-> p.importance]
             : p \in RawPlaces }

(* x || fallback on numbers: NaN and 0 are falsy *)
OrElse(x, fallback) == IF x.nan \/ x.val = 0 THEN fallback ELSE x

(* geocoding.js line 60: parseFloat(result.importance) || 0.5 *)
ServiceConfidence(importance) == OrElse(ParseFloat(importance), Num(5))

(* index.js line 148: location.confidence || 0.8; the locations of         *)
(* processOCRResults carry no confidence                                    *)
PageConfidence == OrElse(NaN, Num(8))

(* index.js line 152: parseFloat(result.importance || 0.5) *)
GeocodingConfidence(importance) ==
    IF importance = <<>> \/ (~ParseFloat(importance).nan /\ ParseFloat(importance).val = 0)
    THEN Num(5)
    ELSE ParseFloat(importance)

----------------------------------------------------------------------------
(* GeocodingService.rateLimit: how long the caller must wait before it may *)
(* send, given Date.now() and lastRequestTime.                             *)

RateLimitNoWait(t, last) == 0

RateLimitDelay(t, last) ==
    LET timeSinceLastRequest == t - last
    IN  IF timeSinceLastRequest < MIN_INTERVAL
        THEN MIN_INTERVAL - timeSinceLastRequest
        ELSE 0

(* The queries some caller has already had resolved successfully *)
Resolved ==
    UNION { { out[c][i].name : i \in { j \in 1..Len(out[c]) : out[c][j].success } }
            : c \in Callers }

(* A request leaving for the provider: fetch(NOMINATIM_BASE_URL/search?q=..) *)
Request(q) ==
    [q |-> q, t |-> now, to |-> NOMINATIM, afterSuccess |-> q \in Resolved]

(* geocodeAddress's return value for one provider answer *)
GeocodeResult(address, r) ==
    IF r.type = "hit"
    THEN [name |-> address, success |-> TRUE,
          coordinates |-> <<ParseFloat(r.lon), ParseFloat(r.lat)>>, error |-> "",
          confidence |-> ServiceConfidence(r.importance)]
    ELSE IF r.type = "empty"
    THEN [name |-> address, success |-> FALSE, coordinates |-> <<>>,
          error |-> "No results found", confidence |-> NaN]
    ELSE [name |-> address, success |-> FALSE, coordinates |-> <<>>,
          error |-> "fetch failed", confidence |-> NaN]

(* The location geocodeOCRResults pushes for a non-empty answer *)
PageLocation(name, r) ==
    [name |-> name, success |-> TRUE,
     coordinates |-> <<ParseFloat(r.lon), ParseFloat(r.lat)>>, error |-> "",
     confidence |-> PageConfidence,
     geocoding_confidence |-> GeocodingConfidence(r.importance)]

Batches == UNION { [1..n -> Queries] : n \in 0..MaxBatch }

----------------------------------------------------------------------------
GeoInit ==
    /\ now = Epoch
    /\ lastRequestTime = 0
    /\ requestCount = 0
    /\ pc = [c \in Callers |-> "idle"]
    /\ kind = [c \in Callers |-> "none"]
    /\ queue = [c \in Callers |-> <<>>]
    /\ idx = [c \in Callers |-> 1]
    /\ wake = [c \in Callers |-> 0]
    /\ sent = [c \in Callers |-> <<>>]
    /\ out = [c \in Callers |-> <<>>]

(* Time passes *)
Tick ==
    /\ UNCHANGED <<batchVars, uploadVars, engineVars, exportVars, textVars, dedupVars, compareVars, cancelVars, hintVars, panelVars, workerVars, listVars>>
    /\ now < EndOfTime
    /\ now' = now + StepMs
    /\ UNCHANGED <<lastRequestTime, requestCount, pc, kind, queue, idx, wake, sent, out>>

(* rateLimit lines 24-25 and the fetch of geocodeAddress that follows them *)
ServiceSend(c, q) ==
    /\ lastRequestTime' = now
    /\ requestCount' = requestCount + 1
    /\ sent' = [sent EXCEPT ![c] = Append(@, Request(q))]
    /\ pc' = [pc EXCEPT ![c] = "fetch"]
    /\ UNCHANGED wake

(* geocodeAddress up to its first real wait: rateLimit lines 17-22 *)
EnterGeocodeAddress(c, q) ==
    LET d == RateLimitDelay(now, lastRequestTime)
    IN  IF d > 0
        THEN /\ pc' = [pc EXCEPT ![c] = "delay"]
             /\ wake' = [wake EXCEPT ![c] = now + d]
             /\ UNCHANGED <<lastRequestTime, requestCount, sent>>
        ELSE ServiceSend(c, q)

(* geocodeMultiple(addresses) is called *)
StartService(c, qs) ==
    /\ UNCHANGED <<batchVars, uploadVars, engineVars, exportVars, textVars, dedupVars, compareVars, cancelVars, hintVars, panelVars, workerVars, listVars>>
    /\ pc[c] = "idle"
    /\ kind' = [kind EXCEPT ![c] = "service"]
    /\ queue' = [queue EXCEPT ![c] = qs]
    /\ IF qs = <<>>
       THEN /\ pc' = [pc EXCEPT ![c] = "done"]
            /\ UNCHANGED <<lastRequestTime, requestCount, sent, wake>>
       ELSE EnterGeocodeAddress(c, qs[1])
    /\ UNCHANGED <<now, idx, out>>

(* the delay of rateLimit is over *)
RateLimitWake(c) ==
    /\ UNCHANGED <<batchVars, uploadVars, engineVars, exportVars, textVars, dedupVars, compareVars, cancelVars, hintVars, panelVars, workerVars, listVars>>
    /\ pc[c] = "delay"
    /\ now >= wake[c]
    /\ ServiceSend(c, queue[c][idx[c]])
    /\ UNCHANGED <<now, kind, queue, idx, out>>

(* the provider answers geocodeAddress; geocodeMultiple pushes the result  *)
(* and goes on with the next address                                        *)
ServiceResponse(c, r) ==
    /\ UNCHANGED <<batchVars, uploadVars, engineVars, exportVars, textVars, dedupVars, compareVars, cancelVars, hintVars, panelVars, workerVars, listVars>>
    /\ pc[c] = "fetch"
    /\ kind[c] = "service"
    /\ out' = [out EXCEPT ![c] = Append(@, GeocodeResult(queue[c][idx[c]], r))]
    /\ idx' = [idx EXCEPT ![c] = @ + 1]
    /\ IF idx[c] = Len(queue[c])
       THEN /\ pc' = [pc EXCEPT ![c] = "done"]
            /\ UNCHANGED <<lastRequestTime, requestCount, sent, wake>>
       ELSE EnterGeocodeAddress(c, queue[c][idx[c] + 1])
    /\ UNCHANGED <<now, kind, queue>>

(* geocodeOCRResults: fetch(nominatim...q=location.name) *)
PageSend(c, q) ==
    /\ sent' = [sent EXCEPT ![c] = Append(@, Request(q))]
    /\ pc' = [pc EXCEPT ![c] = "fetch"]

(* geocodeOCRResults(ocrResults) is called *)
StartPage(c, qs) ==
    /\ UNCHANGED <<batchVars, uploadVars, engineVars, exportVars, textVars, dedupVars, compareVars, cancelVars, hintVars, panelVars, workerVars, listVars>>
    /\ pc[c] = "idle"
    /\ kind' = [kind EXCEPT ![c] = "page"]
    /\ queue' = [queue EXCEPT ![c] = qs]
    /\ IF qs = <<>>
       THEN pc' = [pc EXCEPT ![c] = "done"] /\ UNCHANGED sent
       ELSE PageSend(c, qs[1])
    /\ UNCHANGED <<now, lastRequestTime, requestCount, idx, wake, out>>

(* the provider answers geocodeOCRResults, which then sleeps 1000 ms *)
PageResponse(c, r) ==
    /\ UNCHANGED <<batchVars, uploadVars, engineVars, exportVars, textVars, dedupVars, compareVars, cancelVars, hintVars, panelVars, workerVars, listVars>>
    /\ pc[c] = "fetch"
    /\ kind[c] = "page"
    /\ out' = [out EXCEPT ![c] =
                  IF r.type = "hit" THEN Append(@, PageLocation(queue[c][idx[c]], r)) ELSE @]
    /\ pc' = [pc EXCEPT ![c] = "pause"]
    /\ wake' = [wake EXCEPT ![c] = now + PAGE_DELAY]
    /\ UNCHANGED <<now, lastRequestTime, requestCount, kind, queue, idx, sent>>

(* the sleep is over: next location, or return locations *)
PageWake(c) ==
    /\ UNCHANGED <<batchVars, uploadVars, engineVars, exportVars, textVars, dedupVars, compareVars, cancelVars, hintVars, panelVars, workerVars, listVars>>
    /\ pc[c] = "pause"
    /\ now >= wake[c]
    /\ idx' = [idx EXCEPT ![c] = @ + 1]
    /\ IF idx[c] = Len(queue[c])
       THEN pc' = [pc EXCEPT ![c] = "done"] /\ UNCHANGED sent
       ELSE PageSend(c, queue[c][idx[c] + 1])
    /\ UNCHANGED <<now, lastRequestTime, requestCount, kind, queue, wake, out>>

(* Home before the user loads the test data *)
NotAbandoned ==
    abandoned = [c \in Callers |-> FALSE]

(* The batches geocodeOCRResults is working on: awaiting fetch or the sleep *)
InFlight == { c \in Callers : kind[c] = "page" /\ pc[c] \in {"fetch", "pause"} }

(* handleLoadTestData: the user loads the sample data while a batch is     *)
(* being geocoded; setExtractedLocations(googleMapsData) and               *)
(* setOcrResults(null) drop the batch.  Nothing tells geocodeOCRResults.   *)
HandleLoadTestData ==
    /\ UNCHANGED <<geoVars, batchVars, uploadVars, engineVars, exportVars, textVars, dedupVars, compareVars, hintVars, panelVars, workerVars, listVars>>
    /\ \E c \in InFlight : ~abandoned[c]
    /\ abandoned' = [c \in Callers |-> abandoned[c] \/ c \in InFlight]

----------------------------------------------------------------------------
(* Part 2, OCR runs: OCRProcessor.processFiles (components/OCRProcessor.jsx) *)

Runs == {"r1", "r2"}
FileNames == <<"IMG_3193.PNG", "IMG_3198.PNG", "IMG_3201.PNG", "IMG_3205.PNG">>
FileLists == { SubSeq(FileNames, 1, n) : n \in 0..MaxFiles }

NoDelivery == [type |-> "none", results |-> <<>>, total_count |-> 0,
               processed_count |-> 0, message |-> ""]

(* One entry of results *)
OkEntry(f, text) == [filename |-> f, success |-> TRUE, raw_text |-> text, error |-> ""]
FailEntry(f, msg) == [filename |-> f, success |-> FALSE, raw_text |-> "", error |-> msg]

(* What an engine may make of one file *)
Outcomes == {"text", "empty", "throw"}
TextOf(outcome) == IF outcome = "text" THEN "Olympic natio visitor center" ELSE ""

(* a count that takes every entry *)
CountEntries(results) == Len(results)

(* line 608: results.filter(r => r.success).length *)
ProcessedCount(results) == Len(SelectSeq(results, LAMBDA e : e.success))

(* lines 635-641: processingStats of processOCRResults *)
ProcessingStats(total_count, processed_count) ==
    [totalFiles |-> total_count, successfulFiles |-> processed_count,
     failedFiles |-> total_count - processed_count]

(* lines 606-617: unifiedResults, handed on through processOCRResults *)
Unified(files, results) ==
    [type |-> "complete", results |-> results, total_count |-> Len(files),
     processed_count |-> ProcessedCount(results), message |-> "",
     stats |-> ProcessingStats(Len(files), ProcessedCount(results))]

(* lines 619-621: catch (error) { onError(error.message || ...) } *)
Failure(msg) ==
    [type |-> "error", results |-> <<>>, total_count |-> 0, processed_count |-> 0,
     message |-> msg]

BatchInit ==
    /\ ocrMode = "frontend"
    /\ isProcessing = FALSE
    /\ progress = 0
    /\ currentFile = ""
    /\ runPc = [r \in Runs |-> "idle"]
    /\ runFiles = [r \in Runs |-> <<>>]
    /\ runMode = [r \in Runs |-> "frontend"]
    /\ runI = [r \in Runs |-> 1]
    /\ runResults = [r \in Runs |-> <<>>]
    /\ delivered = [r \in Runs |-> NoDelivery]

(* setOcrMode(m), after React has rendered it *)
SetOcrMode(m) ==
    /\ UNCHANGED <<geoVars, uploadVars, engineVars, exportVars, textVars, dedupVars, compareVars, cancelVars, hintVars, panelVars, workerVars, listVars>>
    /\ ocrMode # m
    /\ ocrMode' = m
    /\ UNCHANGED <<isProcessing, progress, currentFile, runPc, runFiles, runMode, runI,
                   runResults, delivered>>

(* a finally block that forgets the file name *)
FinallyKeepsFile ==
    /\ isProcessing' = FALSE
    /\ progress' = 0
    /\ UNCHANGED currentFile

(* lines 622-626: finally *)
Finally ==
    /\ isProcessing' = FALSE
    /\ progress' = 0
    /\ currentFile' = ""

(* processFiles(files, engine) up to its first await *)
ProcessFiles(r, files) ==
    /\ runPc[r] = "idle"
    /\ runFiles' = [runFiles EXCEPT ![r] = files]
    /\ runMode' = [runMode EXCEPT ![r] = ocrMode]
    /\ IF files = <<>>
       THEN /\ delivered' = [delivered EXCEPT ![r] = Failure("No files selected")]
            /\ runPc' = [runPc EXCEPT ![r] = "done"]
            /\ UNCHANGED <<isProcessing, progress, currentFile>>
       ELSE /\ isProcessing' = TRUE
            /\ IF ocrMode = "frontend"
               THEN /\ runPc' = [runPc EXCEPT ![r] = "ocr"]
                    /\ progress' = 5
                    /\ currentFile' = files[1]
               ELSE /\ runPc' = [runPc EXCEPT ![r] = "backend"]
                    /\ progress' = 0
                    /\ currentFile' = files[1]
            /\ UNCHANGED delivered
    /\ UNCHANGED <<runI, runResults>>

(* a component calls processFiles *)
StartRun(r, files) ==
    /\ UNCHANGED <<geoVars, uploadVars, engineVars, exportVars, textVars, dedupVars, compareVars, cancelVars, hintVars, panelVars, workerVars, listVars>>
    /\ ProcessFiles(r, files)
    /\ UNCHANGED ocrMode

(* OCRPanel before the user touches it *)
PanelIdle ==
    /\ processingMode = "backend"
    /\ runWanted = [r \in Runs |-> "none"]

(* OCRPanel.jsx line 198: the user selects a processing mode *)
SetProcessingMode(m) ==
    /\ UNCHANGED <<geoVars, batchVars, uploadVars, engineVars, exportVars, textVars, dedupVars, compareVars, cancelVars, hintVars, workerVars, listVars>>
    /\ processingMode # m
    /\ processingMode' = m
    /\ UNCHANGED runWanted

(* OCRPanel.jsx lines 109-120: startOCRProcessing.  setOcrMode takes       *)
(* effect with the next render; processFiles is the function of this       *)
(* render and reads the ocrMode of this render                              *)
StartOCRProcessing(r, files) ==
    /\ UNCHANGED <<geoVars, uploadVars, engineVars, exportVars, textVars, dedupVars, compareVars, cancelVars, hintVars, workerVars, listVars>>
    /\ files # <<>>
    /\ ocrMode' = processingMode
    /\ ProcessFiles(r, files)
    /\ runWanted' = [runWanted EXCEPT ![r] = processingMode]
    /\ UNCHANGED processingMode

(* lines 581-591 push the entry of the file; after the last file lines     *)
(* 606-626 finish the run                                                   *)
PushEntry(r, outcome) ==
    /\ LET f == runFiles[r][runI[r]]
           entry == IF outcome = "throw"
                    THEN FailEntry(f, "OCR processing failed: recognize")
                    ELSE OkEntry(f, TextOf(outcome))
           results == Append(runResults[r], entry)
       IN  /\ runResults' = [runResults EXCEPT ![r] = results]
           /\ runI' = [runI EXCEPT ![r] = @ + 1]
           /\ IF runI[r] = Len(runFiles[r])
              THEN /\ delivered' = [delivered EXCEPT ![r] = Unified(runFiles[r], results)]
                   /\ runPc' = [runPc EXCEPT ![r] = "done"]
                   /\ Finally
              ELSE /\ progress' = 5
                   /\ currentFile' = runFiles[r][runI[r] + 1]
                   /\ UNCHANGED <<delivered, runPc, isProcessing>>
    /\ UNCHANGED <<ocrMode, runFiles, runMode>>

(* processFrontendOCR(file) returns or throws, and its entry is pushed *)
FrontendFile(r, outcome) ==
    /\ UNCHANGED <<geoVars, uploadVars, engineVars, exportVars, textVars, dedupVars, compareVars, cancelVars, hintVars, panelVars, workerVars, listVars>>
    /\ runPc[r] = "ocr"
    /\ PushEntry(r, outcome)

(* processFrontendOCR step by step (lines 103-162) *)
WorkerIdle ==
    /\ filePc = [r \in Runs |-> "preprocess"]
    /\ workers = [r \in Runs |-> <<>>]
    /\ pending = [r \in Runs |-> "none"]

(* processFrontendOCR is left: processFiles pushes the entry and goes on   *)
(* with the next file                                                       *)
FileEnds(r, outcome) ==
    /\ PushEntry(r, outcome)
    /\ filePc' = [filePc EXCEPT ![r] = "preprocess"]
    /\ pending' = [pending EXCEPT ![r] = "none"]

(* a throw that leaves the function without its finally block *)
ThrownPastFinally(r) ==
    /\ FileEnds(r, "throw")
    /\ UNCHANGED workers

(* lines 152-161: a step after createWorker throws; catch rethrows, and    *)
(* finally awaits worker.terminate() first                                  *)
Thrown(r) ==
    /\ pending' = [pending EXCEPT ![r] = "throw"]
    /\ filePc' = [filePc EXCEPT ![r] = "terminate"]
    /\ UNCHANGED <<batchVars, workers>>

(* lines 110-113: await preprocessImage(file); when it throws there is no  *)
(* worker yet and finally has nothing to terminate                          *)
Preprocessed(r, ok) ==
    /\ UNCHANGED <<geoVars, uploadVars, engineVars, exportVars, textVars, dedupVars, compareVars, cancelVars, hintVars, panelVars, listVars>>
    /\ runPc[r] = "ocr"
    /\ filePc[r] = "preprocess"
    /\ IF ok
       THEN /\ filePc' = [filePc EXCEPT ![r] = "create"]
            /\ progress' = 15
            /\ UNCHANGED <<ocrMode, isProcessing, currentFile, runPc, runFiles, runMode, runI,
                           runResults, delivered, pending>>
       ELSE FileEnds(r, "throw")
    /\ UNCHANGED workers

(* lines 115-128: worker = await createWorker(...) *)
WorkerCreated(r, ok) ==
    /\ UNCHANGED <<geoVars, uploadVars, engineVars, exportVars, textVars, dedupVars, compareVars, cancelVars, hintVars, panelVars, listVars>>
    /\ runPc[r] = "ocr"
    /\ filePc[r] = "create"
    /\ IF ok
       THEN /\ workers' = [workers EXCEPT ![r] = Append(@, "running")]
            /\ filePc' = [filePc EXCEPT ![r] = "parameters"]
            /\ UNCHANGED <<batchVars, pending>>
       ELSE /\ FileEnds(r, "throw")
            /\ UNCHANGED workers

(* lines 130-139: await worker.setParameters(...) *)
ParametersSet(r, ok) ==
    /\ UNCHANGED <<geoVars, uploadVars, engineVars, exportVars, textVars, dedupVars, compareVars, cancelVars, hintVars, panelVars, listVars>>
    /\ runPc[r] = "ocr"
    /\ filePc[r] = "parameters"
    /\ IF ok
       THEN /\ filePc' = [filePc EXCEPT ![r] = "recognize"]
            /\ UNCHANGED <<batchVars, workers, pending>>
       ELSE Thrown(r)

(* lines 141-152: await worker.recognize(...) and processFrontendOCRText *)
Recognized(r, outcome) ==
    /\ UNCHANGED <<geoVars, uploadVars, engineVars, exportVars, textVars, dedupVars, compareVars, cancelVars, hintVars, panelVars, listVars>>
    /\ runPc[r] = "ocr"
    /\ filePc[r] = "recognize"
    /\ IF outcome = "throw"
       THEN Thrown(r)
       ELSE /\ pending' = [pending EXCEPT ![r] = outcome]
            /\ filePc' = [filePc EXCEPT ![r] = "terminate"]
            /\ progress' = 100
            /\ UNCHANGED <<ocrMode, isProcessing, currentFile, runPc, runFiles, runMode, runI,
                           runResults, delivered, workers>>

(* lines 157-161: finally { await worker.terminate() }, after which the    *)
(* function returns or throws what is pending                               *)
WorkerTerminated(r) ==
    /\ UNCHANGED <<geoVars, uploadVars, engineVars, exportVars, textVars, dedupVars, compareVars, cancelVars, hintVars, panelVars, listVars>>
    /\ runPc[r] = "ocr"
    /\ filePc[r] = "terminate"
    /\ workers' = [workers EXCEPT ![r][Len(workers[r])] = "terminated"]
    /\ FileEnds(r, pending[r])

(* the backend answers processBackendOCR / processBatchFiles with one      *)
(* entry per file (lines 595-603), then lines 606-626                       *)
BackendAnswer(r, outcomes) ==
    /\ UNCHANGED <<geoVars, uploadVars, engineVars, exportVars, textVars, dedupVars, compareVars, cancelVars, hintVars, panelVars, workerVars, listVars>>
    /\ runPc[r] = "backend"
    /\ LET results == [i \in 1..Len(runFiles[r]) |->
                          IF outcomes[i] = "throw"
                          THEN FailEntry(runFiles[r][i], "Could not read image")
                          ELSE OkEntry(runFiles[r][i], TextOf(outcomes[i]))]
       IN  /\ runResults' = [runResults EXCEPT ![r] = results]
           /\ delivered' = [delivered EXCEPT ![r] = Unified(runFiles[r], results)]
    /\ runPc' = [runPc EXCEPT ![r] = "done"]
    /\ Finally
    /\ UNCHANGED <<ocrMode, runFiles, runMode, runI>>

(* the request fails or the response is not ok: processBackendOCR /        *)
(* processBatchFiles throw, lines 619-626                                   *)
BackendThrow(r) ==
    /\ UNCHANGED <<geoVars, uploadVars, engineVars, exportVars, textVars, dedupVars, compareVars, cancelVars, hintVars, panelVars, workerVars, listVars>>
    /\ runPc[r] = "backend"
    /\ delivered' = [delivered EXCEPT ![r] = Failure("OCR processing failed: Bad Request")]
    /\ runPc' = [runPc EXCEPT ![r] = "done"]
    /\ Finally
    /\ UNCHANGED <<ocrMode, runFiles, runMode, runI, runResults>>

BatchNext ==
    \/ \E m \in {"frontend", "backend"} : SetOcrMode(m)
    \/ \E r \in Runs, files \in FileLists : StartRun(r, files)
    \/ \E r \in Runs, outcome \in Outcomes : FrontendFile(r, outcome)
    \/ \E r \in Runs : \E outcomes \in [1..Len(runFiles[r]) -> Outcomes] : BackendAnswer(r, outcomes)
    \/ \E r \in Runs : BackendThrow(r)

----------------------------------------------------------------------------
(* FileUpload.handleBackendOCRProcessing, components/FileUpload.jsx 24-199 *)

NoResult == [type |-> "none", results |-> <<>>]

UploadInit ==
    /\ upPc = "idle"
    /\ upFiles = <<>>
    /\ isBackendProcessing = FALSE
    /\ upStatus = "idle"
    /\ upPercentage = 0
    /\ intervalOn = FALSE
    /\ idleTimer = FALSE
    /\ fallbackTimer = FALSE
    /\ upDelivered = NoResult
    /\ upError = ""

(* what the environment's engines can do with the files of this session *)
BackendStates == {"text", "empty", "reject", "unhealthy", "unreachable"}
EnginesFixed == backendCan = "text" /\ tesseractCan = "text"
EnginesAny == backendCan \in BackendStates /\ tesseractCan \in Outcomes

(* how GET /health answers: ok, a response that is not ok, or fetch throws *)
HealthOf(b) == IF b = "unhealthy" THEN "notok" ELSE IF b = "unreachable" THEN "throw" ELSE "ok"

(* lines 180-195: catch *)
UploadCatch(msg) ==
    /\ upStatus' = "error"
    /\ upError' = msg
    /\ fallbackTimer' = TRUE

(* lines 24-48: up to the await of the health check *)
UploadStart(files) ==
    /\ upPc = "idle"
    /\ files # <<>>
    /\ upFiles' = files
    /\ isBackendProcessing' = TRUE
    /\ upError' = ""
    /\ upStatus' = "processing"
    /\ upPercentage' = 5
    /\ upPc' = "health"
    /\ UNCHANGED <<intervalOn, idleTimer, fallbackTimer, upDelivered>>
    /\ UNCHANGED <<geoVars, batchVars, engineVars, exportVars, textVars, dedupVars, compareVars, cancelVars, hintVars, panelVars, workerVars, listVars>>

(* lines 48-138: the health check answers; on ok the upload is sent and    *)
(* the progress interval is set                                             *)
HealthAnswer(h) ==
    /\ upPc = "health"
    /\ CASE h = "ok" ->
                /\ upPercentage' = 25
                /\ upStatus' = "uploading"
                /\ intervalOn' = TRUE
                /\ upPc' = "upload"
                /\ UNCHANGED <<isBackendProcessing, fallbackTimer, upError, batchVars>>
         [] h = "notok" ->
                /\ isBackendProcessing' = FALSE
                /\ upStatus' = "idle"
                /\ \E r \in Runs : ProcessFiles(r, upFiles)
                /\ UNCHANGED ocrMode
                /\ upPc' = "done"
                /\ UNCHANGED <<upPercentage, intervalOn, fallbackTimer, upError>>
         [] h = "throw" ->
                /\ UploadCatch("Backend processing failed: Failed to fetch. Falling back to frontend processing.")
                /\ isBackendProcessing' = FALSE
                /\ upPc' = "done"
                /\ UNCHANGED <<upPercentage, intervalOn, batchVars>>
    /\ UNCHANGED <<upFiles, idleTimer, upDelivered>>
    /\ UNCHANGED <<geoVars, engineVars, exportVars, textVars, dedupVars, compareVars, cancelVars, hintVars, panelVars, workerVars, listVars>>

(* lines 90-100: xhr.upload 'progress' with loaded/total = p percent *)
UploadProgress(p) ==
    /\ upPc = "upload"
    /\ upPercentage' = 25 + (p \div 4)
    /\ upStatus' = "uploading"
    /\ UNCHANGED <<upPc, upFiles, isBackendProcessing, intervalOn, idleTimer, fallbackTimer,
                   upDelivered, upError>>
    /\ UNCHANGED <<geoVars, batchVars, engineVars, exportVars, textVars, dedupVars, compareVars, cancelVars, hintVars, panelVars, workerVars, listVars>>

(* lines 124-136: the processingInterval callback *)
IntervalTick ==
    /\ intervalOn
    /\ upPercentage < 85
    /\ upPercentage' = IF upPercentage + 2 < 85 THEN upPercentage + 2 ELSE 85
    /\ upStatus' = "processing"
    /\ UNCHANGED <<upPc, upFiles, isBackendProcessing, intervalOn, idleTimer, fallbackTimer,
                   upDelivered, upError>>
    /\ UNCHANGED <<geoVars, batchVars, engineVars, exportVars, textVars, dedupVars, compareVars, cancelVars, hintVars, panelVars, workerVars, listVars>>

(* lines 102-106, 138-178, 196-198: the upload is answered with 2xx and a  *)
(* JSON body that has one entry per file                                    *)
UploadResolve(outcomes) ==
    /\ upPc = "upload"
    /\ intervalOn' = FALSE
    /\ upPercentage' = 100
    /\ upStatus' = "completed"
    /\ upDelivered' = [type |-> "complete",
                       results |-> [i \in 1..Len(upFiles) |->
                                       IF outcomes[i] = "throw"
                                       THEN FailEntry(upFiles[i], "Could not read image")
                                       ELSE OkEntry(upFiles[i], TextOf(outcomes[i]))]]
    /\ upError' = ""
    /\ idleTimer' = TRUE
    /\ isBackendProcessing' = FALSE
    /\ upPc' = "done"
    /\ UNCHANGED <<upFiles, fallbackTimer>>
    /\ UNCHANGED <<geoVars, batchVars, engineVars, exportVars, textVars, dedupVars, compareVars, cancelVars, hintVars, panelVars, workerVars, listVars>>

(* lines 107-117, 138, 180-198: the upload promise rejects; the interval   *)
(* is not cleared on this path                                              *)
UploadReject ==
    /\ upPc = "upload"
    /\ UploadCatch("Backend processing failed: HTTP 500: Internal Server Error. Falling back to frontend processing.")
    /\ isBackendProcessing' = FALSE
    /\ upPc' = "done"
    /\ UNCHANGED <<upFiles, upPercentage, intervalOn, idleTimer, upDelivered>>
    /\ UNCHANGED <<geoVars, batchVars, engineVars, exportVars, textVars, dedupVars, compareVars, cancelVars, hintVars, panelVars, workerVars, listVars>>

(* lines 176-178: the setTimeout(.., 2000) callback *)
IdleTimerFire ==
    /\ idleTimer
    /\ idleTimer' = FALSE
    /\ upStatus' = "idle"
    /\ UNCHANGED <<upPc, upFiles, isBackendProcessing, upPercentage, intervalOn, fallbackTimer,
                   upDelivered, upError>>
    /\ UNCHANGED <<geoVars, batchVars, engineVars, exportVars, textVars, dedupVars, compareVars, cancelVars, hintVars, panelVars, workerVars, listVars>>

(* lines 192-195: the setTimeout(.., 3000) callback *)
FallbackTimerFire ==
    /\ fallbackTimer
    /\ fallbackTimer' = FALSE
    /\ upStatus' = "idle"
    /\ \E r \in Runs : ProcessFiles(r, upFiles)
    /\ UNCHANGED ocrMode
    /\ UNCHANGED <<upPc, upFiles, isBackendProcessing, upPercentage, intervalOn, idleTimer,
                   upDelivered, upError>>
    /\ UNCHANGED <<geoVars, engineVars, exportVars, textVars, dedupVars, compareVars, cancelVars, hintVars, panelVars, workerVars, listVars>>

(* FileUpload with no file in it *)
ListIdle ==
    /\ uploadedFiles = <<>>
    /\ dropped = <<>>

(* lines 214-242: onDrop(acceptedFiles), image files *)
OnDrop(files) ==
    /\ UNCHANGED <<geoVars, batchVars, uploadVars, engineVars, exportVars, textVars, dedupVars, compareVars, cancelVars, hintVars, panelVars, workerVars>>
    /\ files # <<>>
    /\ dropped = <<>>
    /\ uploadedFiles' = uploadedFiles \o files
    /\ dropped' = files

(* lines 238-240: the setTimeout(.., 500) callback *)
DropTimerFire ==
    /\ dropped # <<>>
    /\ UploadStart(dropped)

(* lines 254-261: removeFile(fileId), for the k-th file of the list; the   *)
(* state from setOCRResults is upDelivered, the one from setOCRError is    *)
(* upError                                                                  *)
RemoveFile(k) ==
    /\ UNCHANGED <<geoVars, batchVars, engineVars, exportVars, textVars, dedupVars, compareVars, cancelVars, hintVars, panelVars, workerVars>>
    /\ k \in 1..Len(uploadedFiles)
    /\ uploadedFiles' = [i \in 1..(Len(uploadedFiles) - 1) |->
                             IF i < k THEN uploadedFiles[i] ELSE uploadedFiles[i + 1]]
    /\ IF Len(uploadedFiles) = 1
       THEN /\ upDelivered' = NoResult
            /\ upError' = ""
       ELSE UNCHANGED <<upDelivered, upError>>
    /\ UNCHANGED <<upPc, upFiles, isBackendProcessing, upStatus, upPercentage, intervalOn,
                   idleTimer, fallbackTimer, dropped>>

(* what the backend makes of each file when it answers the upload *)
BackendOutcomes(b, n) ==
    IF b = "text" THEN { [i \in 1..n |-> "text"] }
    ELSE IF b = "empty" THEN [1..n -> {"empty", "throw"}]
    ELSE {}

ProgressSteps == {40, 100}

----------------------------------------------------------------------------
(* Location outputs: GeoJSON exports and the lists handed to the map *)

Null == <<>>
NoFormat == [ready |-> FALSE, locations |-> <<>>]

ExportInit ==
    /\ exportFormat = NoFormat
    /\ geocodedLocations = <<>>
    /\ emitted = {}

Range(seq) == { seq[i] : i \in 1..Len(seq) }

(* OCRAnalysisPanel.jsx 118-170: generateExportFormat, for results whose   *)
(* aggregated_data.locations have these names                               *)
GenerateExportFormat(names) ==
    /\ exportFormat' = [ready |-> TRUE, locations |-> names]
    /\ UNCHANGED <<geocodedLocations, emitted>>
    /\ UNCHANGED <<geoVars, batchVars, uploadVars, engineVars, textVars, dedupVars, compareVars, cancelVars, hintVars, panelVars, workerVars, listVars>>

(* OCRAnalysisPanel.jsx 544-578: Download GeoJSON onClick *)
DownloadGeoJSON ==
    /\ exportFormat.ready
    /\ emitted' = emitted \cup
           { [by |-> "OCRAnalysisPanel", name |-> name, coordinates |-> <<Num(0), Num(0)>>] :
               name \in Range(exportFormat.locations) }
    /\ UNCHANGED <<exportFormat, geocodedLocations>>
    /\ UNCHANGED <<geoVars, batchVars, uploadVars, engineVars, textVars, dedupVars, compareVars, cancelVars, hintVars, panelVars, workerVars, listVars>>

(* OCRTestPanel.jsx 15-25, 37-53: onOCRComplete hands                      *)
(* convertOCRResultsToMapFormat(results) to onLocationsExtracted            *)
ConvertOCRResultsToMapFormat(names) ==
    /\ Len(names) > 0
    /\ emitted' = emitted \cup
           { [by |-> "OCRTestPanel", name |-> name, coordinates |-> Null] : name \in Range(names) }
    /\ UNCHANGED <<exportFormat, geocodedLocations>>
    /\ UNCHANGED <<geoVars, batchVars, uploadVars, engineVars, textVars, dedupVars, compareVars, cancelVars, hintVars, panelVars, workerVars, listVars>>

(* MapView.jsx 165-181 *)
NormalizeCoordinates(location) ==
    LET c == location.coordinates
    IN  IF c = Null \/ Len(c) # 2 THEN Null
        ELSE IF \/ (~c[2].nan /\ Abs(c[2].val) > 900)
                \/ (~c[1].nan /\ Abs(c[1].val) > 1800)
             THEN Null
             ELSE c

(* MapView.jsx 184-226: calculateMapBounds(locations) is not null *)
HasBounds(locations) ==
    \E i \in 1..Len(locations) : NormalizeCoordinates(locations[i]) # Null

(* MapView.jsx 229-265: the effect on the locations prop *)
MapReceives(locations) ==
    /\ geocodedLocations' = IF Len(locations) = 0 THEN <<>>
                            ELSE IF HasBounds(locations) THEN locations
                            ELSE geocodedLocations
    /\ UNCHANGED <<exportFormat, emitted>>
    /\ UNCHANGED <<geoVars, batchVars, uploadVars, engineVars, textVars, dedupVars, compareVars, cancelVars, hintVars, panelVars, workerVars, listVars>>

(* MapView.jsx 267-308 *)
HandleExportGeoJSON ==
    /\ emitted' = emitted \cup
           { [by |-> "MapView", name |-> loc.name, coordinates |-> NormalizeCoordinates(loc)] :
               loc \in { l \in Range(geocodedLocations) : NormalizeCoordinates(l) # Null } }
    /\ UNCHANGED <<exportFormat, geocodedLocations>>
    /\ UNCHANGED <<geoVars, batchVars, uploadVars, engineVars, textVars, dedupVars, compareVars, cancelVars, hintVars, panelVars, workerVars, listVars>>

(* the lists pages/index.js hands to MapView: what geocodeOCRResults made  *)
(* of the provider's answers                                                *)
Hits == { r \in Responses : r.type = "hit" }
LocationLists ==
    UNION { { [i \in 1..n |-> PageLocation(qs[i], rs[i])] : qs \in [1..n -> Queries], rs \in [1..n -> Hits] }
            : n \in 0..MaxBatch }

ExportNext ==
    \/ \E names \in Batches : GenerateExportFormat(names)
    \/ DownloadGeoJSON
    \/ \E names \in Batches : ConvertOCRResultsToMapFormat(names)
    \/ \E locations \in LocationLists : MapReceives(locations)
    \/ HandleExportGeoJSON

----------------------------------------------------------------------------
(* Text cleaning: cleanAndDenoiseText, part_009 227-260.  A text is a      *)
(* sequence of characters.                                                  *)

Whitespace == {" ", "\n", "\r", "\t"}
Upper == {"B", "I", "O", "S"}
WordChars == Upper \cup {"l", "r", "n", "m", "v", "w", "i", "0", "1", "5"}
SentenceEnd == {".", "!", "?"}
Punctuation == SentenceEnd \cup {",", ":", ";"}

(* lines 234-241: ocrFixes, in the order of Object.entries; the four       *)
(* full-width punctuation marks are one character each                      *)
OcrFixes ==
    << <<(<<"O">>), (<<"0">>)>>, <<(<<"l">>), (<<"1">>)>>, <<(<<"I">>), (<<"1">>)>>,
       <<(<<"S">>), (<<"5">>)>>, <<(<<"r", "n">>), (<<"m">>)>>, <<(<<"v", "v">>), (<<"w">>)>>,
       <<(<<"i", "i">>), (<<"l", "l">>)>>,
       <<(<<"U+FF0C">>), (<<",">>)>>, <<(<<"U+3002">>), (<<".">>)>>,
       <<(<<"U+FF1A">>), (<<":">>)>>, <<(<<"U+FF1B">>), (<<";">>)>> >>

(* the end of the run of characters of class that starts at i *)
RECURSIVE RunEnd(_, _, _)
RunEnd(s, i, class) ==
    IF i <= Len(s) /\ s[i] \in class THEN RunEnd(s, i + 1, class) ELSE i

(* line 231: replace(/\s+/g, ' ') *)
RECURSIVE CollapseFrom(_, _)
CollapseFrom(s, i) ==
    IF i > Len(s) THEN <<>>
    ELSE IF s[i] \in Whitespace THEN <<" ">> \o CollapseFrom(s, RunEnd(s, i, Whitespace))
    ELSE <<s[i]>> \o CollapseFrom(s, i + 1)

CollapseWhitespace(s) == CollapseFrom(s, 1)

(* a word character at k; \b before the character at p *)
IsWordAt(s, k) == k >= 1 /\ k <= Len(s) /\ s[k] \in WordChars
WordBoundary(s, p) == IsWordAt(s, p - 1) # IsWordAt(s, p)

(* line 246: replace(new RegExp('\\b' + wrong + '\\b', 'g'), correct) *)
RECURSIVE FixFrom(_, _, _, _)
FixFrom(s, i, wrong, correct) ==
    IF i > Len(s) THEN <<>>
    ELSE IF /\ i + Len(wrong) - 1 <= Len(s)
            /\ SubSeq(s, i, i + Len(wrong) - 1) = wrong
            /\ WordBoundary(s, i)
            /\ WordBoundary(s, i + Len(wrong))
         THEN correct \o FixFrom(s, i + Len(wrong), wrong, correct)
         ELSE <<s[i]>> \o FixFrom(s, i + 1, wrong, correct)

(* lines 244-247: the fixes, one after the other *)
RECURSIVE ApplyFixes(_, _)
ApplyFixes(s, k) ==
    IF k > Len(OcrFixes) THEN s
    ELSE ApplyFixes(FixFrom(s, 1, OcrFixes[k][1], OcrFixes[k][2]), k + 1)

(* line 250: replace(/\r\n/g, '\n').replace(/\r/g, '\n') *)
RECURSIVE LineBreaksFrom(_, _)
LineBreaksFrom(s, i) ==
    IF i > Len(s) THEN <<>>
    ELSE IF s[i] = "\r" /\ i < Len(s) /\ s[i + 1] = "\n"
         THEN <<"\n">> \o LineBreaksFrom(s, i + 2)
    ELSE IF s[i] = "\r" THEN <<"\n">> \o LineBreaksFrom(s, i + 1)
    ELSE <<s[i]>> \o LineBreaksFrom(s, i + 1)

(* line 253: replace(/([.!?])\1+/g, '$1') *)
RECURSIVE DuplicatesFrom(_, _)
DuplicatesFrom(s, i) ==
    IF i > Len(s) THEN <<>>
    ELSE IF s[i] \in SentenceEnd
         THEN <<s[i]>> \o DuplicatesFrom(s, RunEnd(s, i, {s[i]}))
         ELSE <<s[i]>> \o DuplicatesFrom(s, i + 1)

(* line 256: replace(/\s+([.!?,:;])/g, '$1') *)
RECURSIVE SpaceBeforeFrom(_, _)
SpaceBeforeFrom(s, i) ==
    IF i > Len(s) THEN <<>>
    ELSE LET j == RunEnd(s, i, Whitespace)
         IN  IF s[i] \in Whitespace /\ j <= Len(s) /\ s[j] \in Punctuation
             THEN <<s[j]>> \o SpaceBeforeFrom(s, j + 1)
             ELSE <<s[i]>> \o SpaceBeforeFrom(s, i + 1)

(* line 257: replace(/([.!?])\s*([A-Z])/g, '$1 $2') *)
RECURSIVE SentenceSpaceFrom(_, _)
SentenceSpaceFrom(s, i) ==
    IF i > Len(s) THEN <<>>
    ELSE LET j == RunEnd(s, i + 1, Whitespace)
         IN  IF s[i] \in SentenceEnd /\ j <= Len(s) /\ s[j] \in Upper
             THEN <<s[i], " ", s[j]>> \o SentenceSpaceFrom(s, j + 1)
             ELSE <<s[i]>> \o SentenceSpaceFrom(s, i + 1)

(* line 259: trim() *)
RECURSIVE Trim(_)
Trim(s) ==
    IF s = <<>> THEN s
    ELSE IF s[1] \in Whitespace THEN Trim(Tail(s))
    ELSE IF s[Len(s)] \in Whitespace THEN Trim(SubSeq(s, 1, Len(s) - 1))
    ELSE s

(* lines 227-260 *)
CleanAndDenoiseText(text) ==
    LET collapsed == CollapseWhitespace(text)
        fixed == ApplyFixes(collapsed, 1)
        broken == LineBreaksFrom(fixed, 1)
        single == DuplicatesFrom(broken, 1)
        tight == SpaceBeforeFrom(single, 1)
        spaced == SentenceSpaceFrom(tight, 1)
    IN  Trim(spaced)

(* confidence / 100, line 191: a percentage as a fraction *)
Div100(c) == [num |-> c, den |-> 100]

(* a result that takes confidence away from a text it had to change *)
ProcessPenalized(text, confidence, filename) ==
    [success |-> TRUE, filename |-> filename, raw_text |-> text,
     cleaned_text |-> CleanAndDenoiseText(text),
     confidence |-> IF CleanAndDenoiseText(text) = text THEN Div100(confidence)
                    ELSE Div100(confidence \div 2)]

(* lines 167-222: processFrontendOCRText(text, confidence, filename) *)
ProcessFrontendOCRText(text, confidence, filename) ==
    [success |-> TRUE, filename |-> filename, raw_text |-> text,
     cleaned_text |-> CleanAndDenoiseText(text), confidence |-> Div100(confidence)]

TextIdle ==
    /\ ocrTexts = <<>>
    /\ textResults = <<>>
    /\ recleaned = <<>>

(* lines 138-148: recognize has returned for the next file and its text    *)
(* goes through processFrontendOCRText                                      *)
ProcessText ==
    /\ Len(textResults) < Len(ocrTexts)
    /\ LET chunk == ocrTexts[Len(textResults) + 1]
       IN  textResults' = Append(textResults,
               ProcessFrontendOCRText(chunk.text, chunk.confidence, chunk.filename))
    /\ UNCHANGED <<ocrTexts, recleaned>>
    /\ UNCHANGED <<geoVars, batchVars, uploadVars, engineVars, exportVars, dedupVars, compareVars, cancelVars, hintVars, panelVars, workerVars, listVars>>

(* cleanAndDenoiseText on a text that it returned *)
CleanAgain ==
    /\ Len(recleaned) < Len(textResults)
    /\ recleaned' = Append(recleaned,
                           CleanAndDenoiseText(textResults[Len(recleaned) + 1].cleaned_text))
    /\ UNCHANGED <<ocrTexts, textResults>>
    /\ UNCHANGED <<geoVars, batchVars, uploadVars, engineVars, exportVars, dedupVars, compareVars, cancelVars, hintVars, panelVars, workerVars, listVars>>

TextNext == ProcessText \/ CleanAgain

(* every text of at most MaxText of these characters *)
Alphabet == {" ", "\n", ".", "I", "B", "r", "n"}
Texts == UNION { [1..n -> Alphabet] : n \in 0..MaxText }

(* the confidence Tesseract reports, in percent *)
Confidences == {0, 87}

(* recognized texts: one that cleaning leaves alone, two that it changes,  *)
(* one that it empties                                                      *)
SampleTexts == { <<"B">>, <<"B", ".", "B">>, <<"r", "n">>, <<" ">> }
ChunkLists ==
    UNION { { [i \in 1..n |-> [text |-> ts[i], confidence |-> cs[i], filename |-> FileNames[i]]] :
                ts \in [1..n -> SampleTexts], cs \in [1..n -> Confidences] }
            : n \in 0..MaxChunks }

----------------------------------------------------------------------------
(* Candidate locations: extracted_info (part_009 212-220) and              *)
(* processOCRResults (632-693).  A name is a sequence of characters.        *)

(* a comparison that keeps the case *)
SameCase(name) == name

(* String.prototype.toLowerCase *)
LowerChar(ch) == CASE ch = "N" -> "n" [] ch = "Y" -> "y" [] ch = "B" -> "b" [] OTHER -> ch
ToLowerCase(name) == [i \in 1..Len(name) |-> LowerChar(name[i])]

(* line 684: l.name.toLowerCase() === location.name.toLowerCase() *)
SameName(a, b) == ToLowerCase(a) = ToLowerCase(b)

(* lines 655-668: combinedLocations of one result *)
Typed(names, type, source) ==
    [i \in 1..Len(names) |-> [name |-> names[i], type |-> type, source |-> source]]

CombinedLocations(result) ==
    Typed(result.extracted_info.locations, "location", result.filename)
        \o Typed(result.extracted_info.addresses, "address", result.filename)
        \o Typed(result.extracted_info.business_names, "business", result.filename)

(* lines 646-678: allLocations, over the successful results in order *)
RECURSIVE AllLocations(_)
AllLocations(results) ==
    IF results = <<>> THEN <<>>
    ELSE (IF Head(results).success THEN CombinedLocations(Head(results)) ELSE <<>>)
             \o AllLocations(Tail(results))

(* self.findIndex(l => ...) *)
FindIndex(all, name) == CHOOSE k \in 1..Len(all) :
    /\ SameName(all[k].name, name)
    /\ \A j \in 1..(k - 1) : ~SameName(all[j].name, name)

(* lines 683-685: uniqueLocations *)
RECURSIVE UniqueFrom(_, _)
UniqueFrom(all, index) ==
    IF index > Len(all) THEN <<>>
    ELSE (IF index = FindIndex(all, all[index].name) THEN <<all[index]>> ELSE <<>>)
             \o UniqueFrom(all, index + 1)

(* lines 632-693 *)
ProcessOCRResults(results) ==
    [done |-> TRUE, locations |-> UniqueFrom(AllLocations(results), 1)]

NotProcessed == [done |-> FALSE, locations |-> <<>>]

DedupIdle ==
    /\ ocrResults = <<>>
    /\ processedResults = NotProcessed

(* the names the patterns can find: two spellings of one place and a       *)
(* shorter name that is part of it                                          *)
Names == { <<"N", "Y">>, <<"n", "y">>, <<"N">> }

(* [...new Set(names)]: no name twice *)
NameLists == { l \in UNION { [1..n -> Names] : n \in 0..MaxNames } :
                 \A i, j \in 1..Len(l) : i # j => l[i] # l[j] }

(* lines 212-220: extracted_info of processFrontendOCRText *)
ExtractedInfo(locations, addresses, business_names) ==
    [locations |-> locations \o addresses \o business_names,
     addresses |-> addresses, business_names |-> business_names]

(* the next file has been read (or has failed) and its result is pushed *)
PushResult(ok, locations, addresses, business_names) ==
    /\ ~processedResults.done
    /\ Len(ocrResults) < MaxFiles
    /\ LET filename == FileNames[Len(ocrResults) + 1]
       IN  ocrResults' = Append(ocrResults,
               IF ok THEN [success |-> TRUE, filename |-> filename,
                           extracted_info |->
                               ExtractedInfo(locations, addresses, business_names)]
               ELSE [success |-> FALSE, filename |-> filename,
                     extracted_info |-> ExtractedInfo(<<>>, <<>>, <<>>)])
    /\ UNCHANGED processedResults
    /\ UNCHANGED <<geoVars, batchVars, uploadVars, engineVars, exportVars, textVars, compareVars, cancelVars, hintVars, panelVars, workerVars, listVars>>

(* line 615: processOCRResults(unifiedResults) *)
Deduplicate ==
    /\ ~processedResults.done
    /\ Len(ocrResults) > 0
    /\ processedResults' = ProcessOCRResults(ocrResults)
    /\ UNCHANGED ocrResults
    /\ UNCHANGED <<geoVars, batchVars, uploadVars, engineVars, exportVars, textVars, compareVars, cancelVars, hintVars, panelVars, workerVars, listVars>>

DedupNext ==
    \/ \E locations \in NameLists, addresses \in {<<>>, << <<"N">> >>},
          business_names \in {<<>>, << <<"N", "Y">> >>} :
           PushResult(TRUE, locations, addresses, business_names)
    \/ PushResult(FALSE, <<>>, <<>>, <<>>)
    \/ Deduplicate

----------------------------------------------------------------------------
(* Evaluation against ground truth: compareWithGroundTruth (pages/index.js *)
(* 168-244).  Numbers that come from a division are fractions num/den; a    *)
(* den of 0 is what JavaScript gives for a division by 0: NaN for 0/0,      *)
(* Infinity otherwise.                                                      *)

Zero == [num |-> 0, den |-> 1]
Divide(a, b) ==
    IF b.num = 0 \/ a.den = 0 \/ b.den = 0
    THEN [num |-> IF a.num = 0 \/ a.den = 0 \/ b.den = 0 THEN 0 ELSE 1, den |-> 0]
    ELSE [num |-> a.num * b.den, den |-> a.den * b.num]
Times(a, b) == [num |-> a.num * b.num, den |-> a.den * b.den]
Plus(a, b) == [num |-> a.num * b.den + b.num * a.den, den |-> a.den * b.den]
Whole(n) == [num |-> n, den |-> 1]
Positive(a) == a.den > 0 /\ a.num > 0

(* a.includes(b) *)
Includes(a, b) == \E k \in 1..(Len(a) - Len(b) + 1) : SubSeq(a, k, k + Len(b) - 1) = b

(* lines 190-196: the filter's predicate *)
NameMatch(name, gtLocation) ==
    \/ Includes(ToLowerCase(name), ToLowerCase(gtLocation.business_name))
    \/ Includes(ToLowerCase(gtLocation.business_name), ToLowerCase(name))

AddressMatch(name, gtLocation) ==
    \/ Includes(ToLowerCase(gtLocation.address), ToLowerCase(name))
    \/ Includes(ToLowerCase(name), ToLowerCase(gtLocation.address))

(* an extracted location: its name and which element of the array it is *)
OcrLoc(found, i) == [name |-> found[i], pos |-> i]

(* lines 190-196: ocrMatches, as the positions that pass the filter *)
OcrMatches(gtLocation, found) ==
    { i \in 1..Len(found) : NameMatch(found[i], gtLocation) \/ AddressMatch(found[i], gtLocation) }

(* line 199: bestMatch = ocrMatches[0] *)
BestMatch(gtLocation, found) ==
    CHOOSE i \in OcrMatches(gtLocation, found) : \A j \in OcrMatches(gtLocation, found) : i <= j

(* lines 198-211: the entry pushed to comparison.matches *)
MatchEntry(gtLocation, found) ==
    LET bestMatch == OcrLoc(found, BestMatch(gtLocation, found))
        exactMatch == ToLowerCase(bestMatch.name) = ToLowerCase(gtLocation.business_name)
        partialMatch == NameMatch(bestMatch.name, gtLocation)
    IN  [ground_truth |-> gtLocation, ocr_result |-> bestMatch,
         match_type |-> IF exactMatch THEN "exact" ELSE IF partialMatch THEN "partial" ELSE "weak"]

(* lines 189-217: groundTruth.locations.forEach *)
RECURSIVE MatchesOf(_, _)
MatchesOf(truth, found) ==
    IF truth = <<>> THEN <<>>
    ELSE (IF OcrMatches(Head(truth), found) # {} THEN <<MatchEntry(Head(truth), found)>> ELSE <<>>)
             \o MatchesOf(Tail(truth), found)

(* a miss list that takes every record *)
MissingAll(truth, found) == truth

RECURSIVE MissingOf(_, _)
MissingOf(truth, found) ==
    IF truth = <<>> THEN <<>>
    ELSE (IF OcrMatches(Head(truth), found) = {} THEN <<Head(truth)>> ELSE <<>>)
             \o MissingOf(Tail(truth), found)

(* lines 219-225: false positives *)
RECURSIVE FalsePositivesFrom(_, _, _)
FalsePositivesFrom(matches, found, i) ==
    IF i > Len(found) THEN <<>>
    ELSE (IF \E m \in 1..Len(matches) : matches[m].ocr_result.name = found[i]
          THEN <<>> ELSE <<OcrLoc(found, i)>>)
             \o FalsePositivesFrom(matches, found, i + 1)

(* lines 232-237, and OCRAnalysisPanel 84-106 *)
UnguardedRatio(count, total) == Divide(Whole(count), Whole(total))
GuardedRatio(count, total) == IF total > 0 THEN Divide(Whole(count), Whole(total)) ELSE Zero
F1Score(precision, recall) ==
    IF Positive(Plus(precision, recall))
    THEN Divide(Times(Whole(2), Times(precision, recall)), Plus(precision, recall))
    ELSE Zero

(* lines 168-244 *)
CompareWithGroundTruth(truth, found) ==
    LET matches == MatchesOf(truth, found)
        precision == GuardedRatio(Len(matches), Len(found))
        recall == GuardedRatio(Len(matches), Len(truth))
    IN  [done |-> TRUE,
         ground_truth_total |-> Len(truth),
         ocr_total |-> Len(found),
         matches |-> matches,
         missing |-> MissingOf(truth, found),
         false_positives |-> FalsePositivesFrom(matches, found, 1),
         exact_matches |-> Len(SelectSeq(matches, LAMBDA m : m.match_type = "exact")),
         partial_matches |-> Len(SelectSeq(matches, LAMBDA m : m.match_type # "weak")),
         precision |-> precision,
         recall |-> recall,
         f1_score |-> F1Score(precision, recall)]

NoComparison == [done |-> FALSE]

(* OCRAnalysisPanel compareResults, lines 26-110.  An expected location's  *)
(* text is the record's business_name.                                      *)

(* lines 57-60: foundLocations.find *)
Finds(expected, found) == { i \in 1..Len(found) : NameMatch(found[i], expected) }

RECURSIVE PanelMatches(_, _)
PanelMatches(expectedLocations, found) ==
    IF expectedLocations = <<>> THEN <<>>
    ELSE LET expected == Head(expectedLocations)
             finds == Finds(expected, found)
         IN  (IF finds # {}
              THEN <<[expected |-> expected,
                      found |-> OcrLoc(found, CHOOSE i \in finds : \A j \in finds : i <= j)]>>
              ELSE <<>>)
                 \o PanelMatches(Tail(expectedLocations), found)

RECURSIVE PanelMissed(_, _)
PanelMissed(expectedLocations, found) ==
    IF expectedLocations = <<>> THEN <<>>
    ELSE (IF Finds(Head(expectedLocations), found) = {} THEN <<Head(expectedLocations)>> ELSE <<>>)
             \o PanelMissed(Tail(expectedLocations), found)

(* lines 69-74 *)
RECURSIVE PanelFalsePositives(_, _, _)
PanelFalsePositives(expectedLocations, found, i) ==
    IF i > Len(found) THEN <<>>
    ELSE (IF \E e \in 1..Len(expectedLocations) : NameMatch(found[i], expectedLocations[e])
          THEN <<>> ELSE <<OcrLoc(found, i)>>)
             \o PanelFalsePositives(expectedLocations, found, i + 1)

(* lines 76-90: fileComparison *)
FileComparison(expectedLocations, found) ==
    LET matches == PanelMatches(expectedLocations, found)
        precision == GuardedRatio(Len(matches), Len(found))
        recall == GuardedRatio(Len(matches), Len(expectedLocations))
    IN  [expected |-> expectedLocations, found |-> found, matches |-> matches,
         missed |-> PanelMissed(expectedLocations, found),
         falsePositives |-> PanelFalsePositives(expectedLocations, found, 1),
         precision |-> precision, recall |-> recall, f1_score |-> F1Score(precision, recall)]

(* lines 39-95: the files that have ground truth, in order *)
RECURSIVE ComparedFiles(_, _, _)
ComparedFiles(hasTruth, expectedLocations, found) ==
    IF hasTruth = <<>> THEN <<>>
    ELSE (IF Head(hasTruth) THEN <<FileComparison(expectedLocations, found)>> ELSE <<>>)
             \o ComparedFiles(Tail(hasTruth), expectedLocations, found)

(* lines 92-94: the += over the files *)
RECURSIVE Sum(_)
Sum(numbers) == IF numbers = <<>> THEN 0 ELSE Head(numbers) + Sum(Tail(numbers))

(* lines 26-110 *)
CompareResults(hasTruth, expectedLocations, found) ==
    LET files == ComparedFiles(hasTruth, expectedLocations, found)
        expected_total == Sum([i \in 1..Len(files) |-> Len(files[i].expected)])
        found_total == Sum([i \in 1..Len(files) |-> Len(files[i].found)])
        matches == Sum([i \in 1..Len(files) |-> Len(files[i].matches)])
        precision == GuardedRatio(matches, found_total)
        recall == GuardedRatio(matches, expected_total)
    IN  [done |-> TRUE, files |-> files,
         overall |-> [expected_total |-> expected_total, found_total |-> found_total,
                      matches |-> matches, precision |-> precision, recall |-> recall,
                      f1_score |-> F1Score(precision, recall)]]

CompareIdle ==
    /\ groundTruth = <<>>
    /\ extractions = <<>>
    /\ comparison = NoComparison
    /\ panelComparison = NoComparison

(* pages/index.js line 74: handleOCRTest asks for the comparison *)
RunCompareWithGroundTruth ==
    /\ ~comparison.done
    /\ comparison' = CompareWithGroundTruth(groundTruth, extractions)
    /\ UNCHANGED <<groundTruth, extractions, panelComparison>>
    /\ UNCHANGED <<geoVars, batchVars, uploadVars, engineVars, exportVars, textVars, dedupVars, cancelVars, hintVars, panelVars, workerVars, listVars>>

(* OCRAnalysisPanel 24-110: the effect runs for files of which those with  *)
(* hasTruth have an entry in the ground truth                               *)
RunCompareResults(hasTruth) ==
    /\ ~panelComparison.done
    /\ Len(hasTruth) > 0
    /\ panelComparison' = CompareResults(hasTruth, groundTruth, extractions)
    /\ UNCHANGED <<groundTruth, extractions, comparison>>
    /\ UNCHANGED <<geoVars, batchVars, uploadVars, engineVars, exportVars, textVars, dedupVars, cancelVars, hintVars, panelVars, workerVars, listVars>>

CompareNext ==
    \/ RunCompareWithGroundTruth
    \/ \E n \in 1..MaxFiles : \E hasTruth \in [1..n -> BOOLEAN] : RunCompareResults(hasTruth)

(* ground-truth records: a place, a shorter name that is part of it, and   *)
(* a place that shares nothing with them; one address contains the          *)
(* shorter name                                                             *)
TruthRecords ==
    { [business_name |-> n, address |-> a] :
        n \in { <<"N", "Y">>, <<"N">>, <<"B">> }, a \in { <<"1", "N">>, <<"2">> } }
TruthLists == UNION { [1..n -> TruthRecords] : n \in 0..MaxTruth }
FoundLists == UNION { [1..n -> Names] : n \in 0..MaxFound }

----------------------------------------------------------------------------
(* The region hint: testEnhancedGeocoding and hasLocationContext           *)
(* (backend/README.md 146-186).  A name is a sequence of characters.       *)

UpperLetters == <<"A", "B", "C", "D", "E", "F", "G", "H", "I", "J", "K", "L", "M",
                  "N", "O", "P", "Q", "R", "S", "T", "U", "V", "W", "X", "Y", "Z">>
LowerLetters == <<"a", "b", "c", "d", "e", "f", "g", "h", "i", "j", "k", "l", "m",
                  "n", "o", "p", "q", "r", "s", "t", "u", "v", "w", "x", "y", "z">>

IsUpper(ch) == \E k \in 1..Len(UpperLetters) : UpperLetters[k] = ch
IsLower(ch) == \E k \in 1..Len(LowerLetters) : LowerLetters[k] = ch
IsDigit(ch) == ch \in Digits
(* \w of a regular expression *)
IsWord(ch) == IsUpper(ch) \/ IsLower(ch) \/ IsDigit(ch) \/ ch = "_"

(* the letter as the i flag compares it *)
FoldCase(ch) ==
    IF IsUpper(ch) THEN LowerLetters[CHOOSE k \in 1..Len(UpperLetters) : UpperLetters[k] = ch]
    ELSE ch

(* \b between position i - 1 and position i of s *)
Boundary(s, i) ==
    LET before == i > 1 /\ i - 1 <= Len(s) /\ IsWord(s[i - 1])
        after == i >= 1 /\ i <= Len(s) /\ IsWord(s[i])
    IN  before # after

(* line 176: /\b[A-Z]{2}\b/ matched at position i *)
StateAbbreviationAt(s, i) ==
    /\ i + 1 <= Len(s)
    /\ Boundary(s, i)
    /\ IsUpper(s[i]) /\ IsUpper(s[i + 1])
    /\ Boundary(s, i + 2)

(* line 178: the alternatives of the location-word pattern *)
LocationWords ==
    << <<"c", "a", "l", "i", "f", "o", "r", "n", "i", "a">>,
       <<"c", "a">>,
       <<"s", "a", "n", " ", "f", "r", "a", "n", "c", "i", "s", "c", "o">>,
       <<"o", "a", "k", "l", "a", "n", "d">>,
       <<"b", "e", "r", "k", "e", "l", "e", "y">>,
       <<"l", "o", "s", " ", "a", "n", "g", "e", "l", "e", "s">>,
       <<"s", "a", "n", " ", "d", "i", "e", "g", "o">>,
       <<"s", "t", "r", "e", "e", "t">>,
       <<"a", "v", "e", "n", "u", "e">>,
       <<"r", "o", "a", "d">>,
       <<"b", "o", "u", "l", "e", "v", "a", "r", "d">>,
       <<"d", "r", "i", "v", "e">> >>

(* the literal w, compared with the i flag, at position i of s *)
LiteralAt(s, i, w) ==
    /\ i + Len(w) - 1 <= Len(s)
    /\ \A k \in 1..Len(w) : FoldCase(s[i + k - 1]) = FoldCase(w[k])

(* the first alternative that matches at i and is followed by \b, or 0 *)
RECURSIVE AlternativeAt(_, _, _)
AlternativeAt(s, i, k) ==
    IF k > Len(LocationWords) THEN 0
    ELSE IF LiteralAt(s, i, LocationWords[k]) /\ Boundary(s, i + Len(LocationWords[k])) THEN k
    ELSE AlternativeAt(s, i, k + 1)

(* line 178: /\b(california|ca|...|drive)\b/i matched at position i *)
LocationWordAt(s, i) ==
    Boundary(s, i) /\ AlternativeAt(s, i, 1) > 0

(* n digits from position i on *)
DigitsAt(s, i, n) ==
    i + n - 1 <= Len(s) /\ \A k \in 0..(n - 1) : IsDigit(s[i + k])

(* line 180: /\b\d{5}(-\d{4})?\b/ matched at position i: with the group,  *)
(* or, backtracking, without it                                             *)
ZipCodeAt(s, i) ==
    /\ Boundary(s, i)
    /\ DigitsAt(s, i, 5)
    /\ \/ /\ i + 5 <= Len(s) /\ s[i + 5] = "-"
          /\ DigitsAt(s, i + 6, 4)
          /\ Boundary(s, i + 10)
       \/ Boundary(s, i + 5)

(* line 182: /[-+]?\d{1,3}\.\d+/ matched at position i *)
CoordinateAt(s, i) ==
    LET j == IF i <= Len(s) /\ s[i] \in {"-", "+"} THEN i + 1 ELSE i
    IN  \E n \in 1..3 :
            /\ DigitsAt(s, j, n)
            /\ j + n <= Len(s) /\ s[j + n] = "."
            /\ DigitsAt(s, j + n + 1, 1)

(* lines 174-183: locationIndicators, each as its match at one position *)
IndicatorAt(pattern, s, i) ==
    CASE pattern = 1 -> StateAbbreviationAt(s, i)
      [] pattern = 2 -> LocationWordAt(s, i)
      [] pattern = 3 -> ZipCodeAt(s, i)
      [] pattern = 4 -> CoordinateAt(s, i)

(* RegExp.prototype.test: the first position from i on where it matches *)
RECURSIVE Test(_, _, _)
Test(pattern, s, i) ==
    IF i > Len(s) THEN FALSE
    ELSE IF IndicatorAt(pattern, s, i) THEN TRUE
    ELSE Test(pattern, s, i + 1)

(* line 185: locationIndicators.some(pattern => pattern.test(address)) *)
HasLocationContext(address) ==
    \E pattern \in 1..4 : Test(pattern, address, 1)

(* line 160: the hint of `${businessName}, California, USA` *)
RegionHint == <<",", " ", "C", "a", "l", "i", "f", "o", "r", "n", "i", "a", ",", " ", "U", "S", "A">>

(* lines 151-165: one round of the loop *)
EnhancedQuery(businessName) ==
    LET hasContext == HasLocationContext(businessName)
    IN  [by |-> "testEnhancedGeocoding", name |-> businessName,
         searchQuery |-> IF ~hasContext THEN businessName \o RegionHint ELSE businessName]

(* geocoding.js 34-40: the q of the request geocodeAddress sends *)
ServiceQuery(address) ==
    [by |-> "geocodeAddress", name |-> address, searchQuery |-> address]

HintIdle ==
    /\ businessNames = <<>>
    /\ searchQueries = <<>>

(* lines 146-170: testEnhancedGeocoding; the loop has no await in it *)
TestEnhancedGeocoding ==
    /\ UNCHANGED <<geoVars, batchVars, uploadVars, engineVars, exportVars, textVars, dedupVars, compareVars, cancelVars, panelVars, workerVars, listVars>>
    /\ businessNames # <<>>
    /\ searchQueries = <<>>
    /\ searchQueries' = [i \in 1..Len(businessNames) |-> EnhancedQuery(businessNames[i])]
    /\ UNCHANGED businessNames

(* geocodeMultiple over the same names: the queries of its requests *)
GeocodeMultipleQueries ==
    /\ UNCHANGED <<geoVars, batchVars, uploadVars, engineVars, exportVars, textVars, dedupVars, compareVars, cancelVars, panelVars, workerVars, listVars>>
    /\ businessNames # <<>>
    /\ searchQueries = <<>>
    /\ searchQueries' = [i \in 1..Len(businessNames) |-> ServiceQuery(businessNames[i])]
    /\ UNCHANGED businessNames

HintNext == TestEnhancedGeocoding \/ GeocodeMultipleQueries

(* The words business names are made of: a name, a state, a country, a     *)
(* location word, a ZIP code, a coordinate                                  *)
NameWords ==
    { <<"A", "c", "m", "e">>,
      <<"B", "r", "e", "a", "d">>,
      <<"C", "A">>,
      <<"U", "S", "A">>,
      <<"c", "a">>,
      <<"9", "4", "7", "0", "4">>,
      <<"3", "7", ".", "8">> }

RECURSIVE Join(_)
Join(ws) ==
    IF Len(ws) = 1 THEN ws[1] ELSE ws[1] \o <<" ">> \o Join(Tail(ws))

BusinessNames == { Join(ws) : ws \in UNION { [1..n -> NameWords] : n \in 1..MaxWords } }

----------------------------------------------------------------------------
Init ==
    /\ GeoInit /\ NotAbandoned /\ HintIdle /\ PanelIdle /\ WorkerIdle /\ ListIdle /\ BatchInit /\ UploadInit /\ EnginesFixed /\ ExportInit
    /\ TextIdle /\ DedupIdle /\ CompareIdle

InitCompare ==
    /\ GeoInit /\ NotAbandoned /\ HintIdle /\ PanelIdle /\ WorkerIdle /\ ListIdle /\ BatchInit /\ UploadInit /\ EnginesFixed /\ ExportInit
    /\ TextIdle /\ DedupIdle
    /\ groundTruth \in TruthLists
    /\ extractions \in FoundLists
    /\ comparison = NoComparison
    /\ panelComparison = NoComparison

SpecCompare == InitCompare /\ [][CompareNext]_vars

SpecDedup == Init /\ [][DedupNext]_vars

(* the script runs over one business name *)
InitHint ==
    /\ GeoInit /\ NotAbandoned /\ PanelIdle /\ WorkerIdle /\ ListIdle /\ BatchInit /\ UploadInit /\ EnginesFixed /\ ExportInit
    /\ TextIdle /\ DedupIdle /\ CompareIdle
    /\ \E name \in BusinessNames : businessNames = <<name>>
    /\ searchQueries = <<>>

SpecHint == InitHint /\ [][HintNext]_vars

(* every short text goes through cleanAndDenoiseText, twice *)
InitClean ==
    /\ GeoInit /\ NotAbandoned /\ HintIdle /\ PanelIdle /\ WorkerIdle /\ ListIdle /\ BatchInit /\ UploadInit /\ EnginesFixed /\ ExportInit /\ DedupIdle
    /\ CompareIdle
    /\ \E t \in Texts :
           ocrTexts = <<[text |-> t, confidence |-> 87, filename |-> FileNames[1]]>>
    /\ textResults = <<>>
    /\ recleaned = <<>>

SpecClean == InitClean /\ [][TextNext]_vars

(* a few recognized texts go through processFrontendOCRText *)
InitNormalize ==
    /\ GeoInit /\ NotAbandoned /\ HintIdle /\ PanelIdle /\ WorkerIdle /\ ListIdle /\ BatchInit /\ UploadInit /\ EnginesFixed /\ ExportInit /\ DedupIdle
    /\ CompareIdle
    /\ ocrTexts \in ChunkLists
    /\ textResults = <<>>
    /\ recleaned = <<>>

SpecNormalize == InitNormalize /\ [][TextNext]_vars

InitUpload ==
    /\ GeoInit /\ NotAbandoned /\ HintIdle /\ PanelIdle /\ WorkerIdle /\ ListIdle /\ BatchInit /\ UploadInit /\ EnginesAny /\ ExportInit
    /\ TextIdle /\ DedupIdle /\ CompareIdle

SpecExport == Init /\ [][ExportNext]_vars

(* One drop of image files on FileUpload, whose OCRProcessor stays in its  *)
(* initial 'frontend' mode; the engines answer as the environment has them  *)
UploadNext ==
    \/ \E files \in FileLists : UploadStart(files)
    \/ HealthAnswer(HealthOf(backendCan))
    \/ \E p \in ProgressSteps : UploadProgress(p)
    \/ IntervalTick
    \/ \E outcomes \in BackendOutcomes(backendCan, Len(upFiles)) : UploadResolve(outcomes)
    \/ (backendCan = "reject" /\ UploadReject)
    \/ IdleTimerFire
    \/ FallbackTimerFire
    \/ \E r \in Runs : FrontendFile(r, tesseractCan)

SpecUpload == InitUpload /\ [][UploadNext]_vars

(* Files are dropped on FileUpload and removed from its list while the     *)
(* OCR of the drop runs                                                     *)
ListNext ==
    \/ \E files \in FileLists : OnDrop(files)
    \/ DropTimerFire
    \/ \E k \in 1..MaxFiles : RemoveFile(k)
    \/ HealthAnswer(HealthOf(backendCan))
    \/ \E p \in ProgressSteps : UploadProgress(p)
    \/ IntervalTick
    \/ \E outcomes \in BackendOutcomes(backendCan, Len(upFiles)) : UploadResolve(outcomes)
    \/ (backendCan = "reject" /\ UploadReject)
    \/ IdleTimerFire
    \/ FallbackTimerFire
    \/ \E r \in Runs : FrontendFile(r, tesseractCan)

SpecList == InitUpload /\ [][ListNext]_vars

SpecBatch == Init /\ [][BatchNext]_vars

(* An await of processFiles settles: worker.recognize returns or throws,   *)
(* the fetch of the backend resolves or rejects                             *)
Settles(r) ==
    \/ \E outcome \in Outcomes : FrontendFile(r, outcome)
    \/ \E outcomes \in [1..Len(runFiles[r]) -> Outcomes] : BackendAnswer(r, outcomes)
    \/ BackendThrow(r)

(* Runs in the browser, file by file and step by step *)
WorkerNext ==
    \/ \E r \in Runs, files \in FileLists : StartRun(r, files)
    \/ \E r \in Runs, ok \in BOOLEAN : Preprocessed(r, ok)
    \/ \E r \in Runs, ok \in BOOLEAN : WorkerCreated(r, ok)
    \/ \E r \in Runs, ok \in BOOLEAN : ParametersSet(r, ok)
    \/ \E r \in Runs, outcome \in Outcomes : Recognized(r, outcome)
    \/ \E r \in Runs : WorkerTerminated(r)

SpecWorker == Init /\ [][WorkerNext]_vars

SpecBatchFair == SpecBatch /\ \A r \in Runs : WF_vars(Settles(r))

(* The OCR panel: the user selects modes and starts runs *)
PanelNext ==
    \/ \E m \in {"frontend", "backend"} : SetProcessingMode(m)
    \/ \E r \in Runs, files \in FileLists : StartOCRProcessing(r, files)
    \/ \E r \in Runs, outcome \in Outcomes : FrontendFile(r, outcome)
    \/ \E r \in Runs : \E outcomes \in [1..Len(runFiles[r]) -> Outcomes] : BackendAnswer(r, outcomes)
    \/ \E r \in Runs : BackendThrow(r)

SpecPanel == Init /\ [][PanelNext]_vars

(* One batch at a time: a single caller, every batch and every answer *)
GeoNext ==
    \/ Tick
    \/ \E qs \in Batches : StartService("A", qs)
    \/ RateLimitWake("A")
    \/ \E r \in Responses : ServiceResponse("A", r)
    \/ \E qs \in Batches : StartPage("A", qs)
    \/ \E r \in Responses : PageResponse("A", r)
    \/ PageWake("A")

SpecGeo == Init /\ [][GeoNext]_vars

(* Concurrent batches.  What a request is for and what the provider        *)
(* answers do not change when requests are sent, so the batches ask for    *)
(* one place and the provider finds it or not.                             *)
RateBatches == { [i \in 1..n |-> "Quinault rain forest"] : n \in 0..MaxBatch }
RateResponses == { r \in Responses : r.type = "empty" \/ (r.type = "hit" /\ ~ParseFloat(r.lon).nan) }

RateNext ==
    \/ Tick
    \/ \E c \in Callers, qs \in RateBatches : StartService(c, qs)
    \/ \E c \in Callers : RateLimitWake(c)
    \/ \E c \in Callers, r \in RateResponses : ServiceResponse(c, r)
    \/ \E c \in Callers, qs \in RateBatches : StartPage(c, qs)
    \/ \E c \in Callers, r \in RateResponses : PageResponse(c, r)
    \/ \E c \in Callers : PageWake(c)

SpecRate == Init /\ [][RateNext]_vars

(* The page geocodes a batch and the user may load the test data meanwhile *)
CancelNext ==
    \/ Tick
    \/ \E qs \in Batches : StartPage("A", qs)
    \/ \E r \in Responses : PageResponse("A", r)
    \/ PageWake("A")
    \/ HandleLoadTestData

SpecCancel == Init /\ [][CancelNext]_vars

----------------------------------------------------------------------------
(* Claims about geocoding *)

(* C1: the requests one batch sends one after another leave at least       *)
(* 1 second apart, so from the first to the last of N requests at least     *)
(* (N-1) x 1 second pass.                                                   *)
C1_SequentialSpacing ==
    \A c \in Callers :
        LET n == Len(sent[c])
        IN  /\ \A i \in 1..(n - 1) : sent[c][i + 1].t - sent[c][i].t >= 1000
            /\ n >= 1 => sent[c][n].t - sent[c][1].t >= (n - 1) * 1000

(* a geocodeMultiple batch that had to wait in rateLimit has sent its second request *)
C1_Witness ==
    /\ kind["A"] = "service"
    /\ Len(sent["A"]) >= 2
    /\ sent["A"][2].t = sent["A"][1].t + 1000

(* C2: whatever the interleaving of concurrent batches, no two requests    *)
(* leave for the provider less than 1 second apart.                         *)
C2_SharedGate ==
    \A c1, c2 \in Callers :
        \A i \in 1..Len(sent[c1]), j \in 1..Len(sent[c2]) :
            (c1 # c2 \/ i # j) => Abs(sent[c1][i].t - sent[c2][j].t) >= 1000

(* C2, for the callers that go through the shared rateLimit gate alone *)
C2_ServiceGate ==
    \A c1, c2 \in Callers :
        \A i \in 1..Len(sent[c1]), j \in 1..Len(sent[c2]) :
            (kind[c1] = "service" /\ kind[c2] = "service" /\ (c1 # c2 \/ i # j))
                => Abs(sent[c1][i].t - sent[c2][j].t) >= 1000

(* C3: every emitted location has a numeric longitude in [-180, 180] and a *)
(* numeric latitude in [-90, 90] (numbers are in tenths of a degree).       *)
InRange(coordinates) ==
    /\ Len(coordinates) = 2
    /\ ~coordinates[1].nan /\ ~coordinates[2].nan
    /\ coordinates[1].val >= 0 - 1800 /\ coordinates[1].val <= 1800
    /\ coordinates[2].val >= 0 - 900 /\ coordinates[2].val <= 900

C3_CoordinateRange ==
    \A c \in Callers : \A i \in 1..Len(out[c]) :
        out[c][i].success => InRange(out[c][i].coordinates)

(* C6: when a batch is over, each of its candidates is in the geocoded     *)
(* output or in a list of unresolved candidates that gives the reason.      *)
IsGeocoded(e) == e.success
IsUngeocoded(e) == ~e.success /\ e.error # ""

C6_NoCandidateLost ==
    \A c \in Callers :
        pc[c] = "done" =>
            /\ Len(SelectSeq(out[c], IsGeocoded)) + Len(SelectSeq(out[c], IsUngeocoded))
                   = Len(queue[c])
            /\ \A i \in 1..Len(queue[c]) : \E k \in 1..Len(out[c]) : out[c][k].name = queue[c][i]

(* C8: no request goes to the provider for a query that has already been   *)
(* resolved successfully.                                                   *)
C8_CacheHit ==
    \A c \in Callers : \A i \in 1..Len(sent[c]) : ~sent[c][i].afterSuccess

(* C9: at most one provider request is in flight per query.                *)
C9_SingleFlight ==
    \A c1, c2 \in Callers :
        (c1 # c2 /\ pc[c1] = "fetch" /\ pc[c2] = "fetch")
            => queue[c1][idx[c1]] # queue[c2][idx[c2]]

(* C10: a request goes to the free provider (Nominatim) only after a       *)
(* request for the same candidate went to a primary provider.               *)
C10_PrimaryFirst ==
    \A c \in Callers : \A i \in 1..Len(sent[c]) :
        sent[c][i].to = NOMINATIM =>
            \E j \in 1..(i - 1) : sent[c][j].q = sent[c][i].q /\ sent[c][j].to # NOMINATIM

----------------------------------------------------------------------------
(* Claims about OCR runs *)

(* C4: a finished run over a non-empty file list has handed over one       *)
(* well-formed entry per file, in the files' order: a failed file's entry   *)
(* has success = false and a non-empty reason.                              *)
WellFormed(e, f) ==
    /\ e.filename = f
    /\ e.success \in BOOLEAN
    /\ ~e.success => e.error # ""

C4_EntryPerAsset ==
    \A r \in Runs :
        (runPc[r] = "done" /\ runFiles[r] # <<>>) =>
            /\ delivered[r].type = "complete"
            /\ Len(delivered[r].results) = Len(runFiles[r])
            /\ \A i \in 1..Len(runFiles[r]) : WellFormed(delivered[r].results[i], runFiles[r][i])

(* C4 in frontend mode alone, where each file has its own try/catch *)
C4_FrontendEntryPerAsset ==
    \A r \in Runs :
        (runPc[r] = "done" /\ runFiles[r] # <<>> /\ runMode[r] = "frontend") =>
            /\ delivered[r].type = "complete"
            /\ Len(delivered[r].results) = Len(runFiles[r])
            /\ \A i \in 1..Len(runFiles[r]) : WellFormed(delivered[r].results[i], runFiles[r][i])

----------------------------------------------------------------------------
(* Claims about engine fallback *)

HasTextFor(results, f) ==
    \E i \in 1..Len(results) : results[i].filename = f /\ results[i].raw_text # ""

(* the upload and every run it fell back to are over *)
UploadOver ==
    /\ upPc = "done"
    /\ ~fallbackTimer
    /\ \A r \in Runs : runPc[r] \in {"idle", "done"}

(* C5: once an upload and its fallback are over, a file is without text    *)
(* only when no engine would have produced text for it: when the first      *)
(* engine is unavailable or returns no text the next one is tried.          *)
C5_EngineFallback ==
    UploadOver =>
        \A i \in 1..Len(upFiles) :
            (/\ ~HasTextFor(upDelivered.results, upFiles[i])
             /\ \A r \in Runs : ~HasTextFor(delivered[r].results, upFiles[i]))
                => (backendCan # "text" /\ tesseractCan # "text")

(* C5, when the first engine is unavailable: the fallback is tried *)
C5_UnavailableFallback ==
    (UploadOver /\ backendCan \in {"reject", "unhealthy", "unreachable"} /\ tesseractCan = "text")
        => \A i \in 1..Len(upFiles) :
               \E r \in Runs : HasTextFor(delivered[r].results, upFiles[i])

----------------------------------------------------------------------------
(* Claims about location outputs *)

(* C7: no location is written to a GeoJSON export or handed to the map     *)
(* with missing, null or zero-placeholder coordinates.                      *)
C7_NoPlaceholderCoordinates ==
    \A e \in emitted :
        /\ e.coordinates # Null
        /\ ~e.coordinates[1].nan /\ ~e.coordinates[2].nan
        /\ e.coordinates # <<Num(0), Num(0)>>

(* C7, for MapView's export alone: locations without a coordinate pair or  *)
(* with a pair outside the ranges are left out                              *)
C7_MapViewExport ==
    \A e \in emitted :
        e.by = "MapView" =>
            /\ e.coordinates # Null
            /\ ~e.coordinates[1].nan => Abs(e.coordinates[1].val) <= 1800
            /\ ~e.coordinates[2].nan => Abs(e.coordinates[2].val) <= 900

----------------------------------------------------------------------------
(* Claims about text normalization *)

(* C14: cleaning a text that cleanAndDenoiseText returned changes nothing: *)
(* normalize(normalize(t)) = normalize(t) for every text t.                 *)
C14_Idempotent ==
    \A i \in 1..Len(recleaned) : recleaned[i] = textResults[i].cleaned_text

----------------------------------------------------------------------------
(* Claims about candidate locations *)

UpperChar(ch) == CASE ch = "n" -> "N" [] ch = "y" -> "Y" [] OTHER -> ch
EqualIgnoringCase(a, b) ==
    Len(a) = Len(b) /\ \A i \in 1..Len(a) : UpperChar(a[i]) = UpperChar(b[i])

(* the files of the batch in which a candidate of this text was found *)
FoundIn(name) ==
    { ocrResults[f].filename : f \in { g \in 1..Len(ocrResults) :
        /\ ocrResults[g].success
        /\ \E i \in 1..Len(ocrResults[g].extracted_info.locations) :
               EqualIgnoringCase(ocrResults[g].extracted_info.locations[i], name) } }

(* a is part of b and shorter than b *)
ProperSubstring(a, b) ==
    /\ Len(a) < Len(b)
    /\ \E k \in 1..(Len(b) - Len(a) + 1) : SubSeq(b, k, k + Len(a) - 1) = a

(* C11: after deduplication no two candidates, of one file or of the       *)
(* whole batch, have the same text ignoring case.                           *)
C11_NoCaseDuplicates ==
    \A i, j \in 1..Len(processedResults.locations) :
        i # j => ~EqualIgnoringCase(processedResults.locations[i].name,
                                    processedResults.locations[j].name)

(* one file had the same place in two spellings and the deduplicated list  *)
(* has it once                                                              *)
C11_Witness ==
    /\ processedResults.done
    /\ \E f \in 1..Len(ocrResults) :
           LET l == ocrResults[f].extracted_info.locations
           IN  \E i, j \in 1..Len(l) : i # j /\ EqualIgnoringCase(l[i], l[j])
    /\ \E i \in 1..Len(processedResults.locations) :
           EqualIgnoringCase(processedResults.locations[i].name, <<"N", "Y">>)

(* C12: the entry that survives a merge refers to every file in which a    *)
(* duplicate of it was found (the union of the source references).          *)
C12_MergedSources ==
    \A i \in 1..Len(processedResults.locations) :
        FoundIn(processedResults.locations[i].name) \subseteq {processedResults.locations[i].source}

(* C13: after deduplication no candidate's text is a substring of another  *)
(* candidate's text: only the longer one remains.                           *)
C13_LongerTextOnly ==
    \A i, j \in 1..Len(processedResults.locations) :
        ~ProperSubstring(processedResults.locations[i].name, processedResults.locations[j].name)

----------------------------------------------------------------------------
(* Claims about the evaluation *)

Finite(x) == x.den # 0
IsZero(x) == x.den # 0 /\ x.num = 0

(* C16: each ground-truth record is paired with at most one extraction and *)
(* is in exactly one of the match set and the miss set, so matches plus     *)
(* misses is the number of ground-truth records.                            *)
C16_TruthPartition ==
    /\ comparison.done =>
           /\ Len(comparison.matches) + Len(comparison.missing) = Len(groundTruth)
           /\ \A k \in 1..Len(groundTruth) :
                  (\E m \in 1..Len(comparison.matches) :
                       comparison.matches[m].ground_truth = groundTruth[k])
                      # (\E x \in 1..Len(comparison.missing) :
                           comparison.missing[x] = groundTruth[k])
           /\ \A m \in 1..Len(comparison.matches) :
                  comparison.matches[m].ocr_result.pos \in 1..Len(extractions)
    /\ panelComparison.done =>
           \A f \in 1..Len(panelComparison.files) :
               LET file == panelComparison.files[f]
               IN  /\ Len(file.matches) + Len(file.missed) = Len(file.expected)
                   /\ \A k \in 1..Len(file.expected) :
                          (\E m \in 1..Len(file.matches) :
                               file.matches[m].expected = file.expected[k])
                              # (\E x \in 1..Len(file.missed) :
                                   file.missed[x] = file.expected[k])

(* both comparisons are done, one record was matched and another missed *)
C16_Witness ==
    /\ comparison.done
    /\ panelComparison.done
    /\ Len(comparison.matches) = 1
    /\ Len(comparison.missing) = 1
    /\ Len(panelComparison.files) > 0

(* C17: each extraction is paired with a ground-truth record in the match  *)
(* set or is listed as a false positive, never both and never neither.      *)
C17_ExtractionPartition ==
    /\ comparison.done =>
           \A i \in 1..Len(extractions) :
               (\E m \in 1..Len(comparison.matches) :
                    comparison.matches[m].ocr_result.pos = i)
                   # (\E x \in 1..Len(comparison.false_positives) :
                        comparison.false_positives[x].pos = i)
    /\ panelComparison.done =>
           \A f \in 1..Len(panelComparison.files) :
               LET file == panelComparison.files[f]
               IN  \A i \in 1..Len(file.found) :
                       (\E m \in 1..Len(file.matches) : file.matches[m].found.pos = i)
                           # (\E x \in 1..Len(file.falsePositives) :
                                file.falsePositives[x].pos = i)

(* C18: a ground-truth record whose text some extraction has exactly is    *)
(* reported as a match of type "exact", whatever else was extracted and in  *)
(* whatever order.                                                          *)
C18_ExactMatch ==
    comparison.done =>
        \A k \in 1..Len(groundTruth) :
            (\E i \in 1..Len(extractions) : extractions[i] = groundTruth[k].business_name)
                => \E m \in 1..Len(comparison.matches) :
                       /\ comparison.matches[m].ground_truth = groundTruth[k]
                       /\ comparison.matches[m].match_type = "exact"

(* C19: precision, recall and F1 are never NaN or Infinity, and are 0 when *)
(* their denominator is 0, for each file and overall.                       *)
MetricsDefined(m, found_total, expected_total) ==
    /\ Finite(m.precision) /\ Finite(m.recall) /\ Finite(m.f1_score)
    /\ found_total = 0 => IsZero(m.precision)
    /\ expected_total = 0 => IsZero(m.recall)
    /\ (IsZero(m.precision) /\ IsZero(m.recall)) => IsZero(m.f1_score)

C19_MetricsDefined ==
    /\ comparison.done => MetricsDefined(comparison, Len(extractions), Len(groundTruth))
    /\ panelComparison.done =>
           /\ MetricsDefined(panelComparison.overall, panelComparison.overall.found_total,
                             panelComparison.overall.expected_total)
           /\ \A f \in 1..Len(panelComparison.files) :
                  MetricsDefined(panelComparison.files[f], Len(panelComparison.files[f].found),
                                 Len(panelComparison.files[f].expected))

(* both comparisons are done for records against which nothing was         *)
(* extracted: the denominator of precision is 0                             *)
C19_Witness ==
    /\ comparison.done
    /\ panelComparison.done
    /\ Len(groundTruth) > 0
    /\ Len(extractions) = 0
    /\ Len(panelComparison.files) > 0
    /\ IsZero(comparison.precision)
    /\ IsZero(comparison.f1_score)

----------------------------------------------------------------------------
(* Claims about batch counts *)

(* C20: in every batch result the total is the number of files submitted,  *)
(* the successful count is the number of entries with success = true, and   *)
(* failed = total - successful is not negative.                             *)
C20_BatchCounts ==
    \A r \in Runs :
        delivered[r].type = "complete" =>
            LET stats == delivered[r].stats
                entries == delivered[r].results
            IN  /\ stats.totalFiles = Len(runFiles[r])
                /\ stats.successfulFiles
                       = Cardinality({ i \in 1..Len(entries) : entries[i].success })
                /\ stats.failedFiles = stats.totalFiles - stats.successfulFiles
                /\ stats.failedFiles >= 0

(* a run over several files of which one failed has handed over its result *)
C20_Witness ==
    \E r \in Runs :
        /\ delivered[r].type = "complete"
        /\ Len(runFiles[r]) >= 2
        /\ delivered[r].stats.failedFiles = 1
        /\ delivered[r].stats.successfulFiles = Len(runFiles[r]) - 1


----------------------------------------------------------------------------
(* Claims about abandoned batches *)

(* C21: once the caller has abandoned a batch, no new geocoding request is *)
(* dispatched for that batch: its list of dispatched requests stays as it  *)
(* is (a request already in flight may still be answered).                 *)
C21_NoDispatchAfterAbandon ==
    [][\A c \in Callers : abandoned[c] => sent'[c] = sent[c]]_vars


----------------------------------------------------------------------------
(* Claims about the region hint *)

(* a standalone run w of characters of s: s[i..j] with no word character   *)
(* next to it                                                               *)
Standalone(s, i, j) ==
    /\ 1 <= i /\ i <= j /\ j <= Len(s)
    /\ (i = 1 \/ ~IsWord(s[i - 1]))
    /\ (j = Len(s) \/ ~IsWord(s[j + 1]))

Spells(s, i, w) ==
    /\ i + Len(w) - 1 <= Len(s)
    /\ \A k \in 1..Len(w) : FoldCase(s[i + k - 1]) = FoldCase(w[k])

(* a state: a two-letter abbreviation in capitals, or California *)
StateIndicator(s) ==
    \E i \in 1..Len(s) :
        \/ Standalone(s, i, i + 1) /\ IsUpper(s[i]) /\ IsUpper(s[i + 1])
        \/ \E w \in { <<"c", "a">>, <<"c", "a", "l", "i", "f", "o", "r", "n", "i", "a">> } :
               Standalone(s, i, i + Len(w) - 1) /\ Spells(s, i, w)

(* a country: the one the hint itself names *)
CountryIndicator(s) ==
    \E i \in 1..Len(s) :
        Standalone(s, i, i + 2) /\ Spells(s, i, <<"U", "S", "A">>)

(* a ZIP code: five digits standing alone *)
ZipCode(s) ==
    \E i \in 1..Len(s) :
        Standalone(s, i, i + 4) /\ \A k \in 0..4 : IsDigit(s[i + k])

(* a coordinate: digits, a point, digits *)
CoordinatePattern(s) ==
    \E i \in 1..Len(s) :
        i + 2 <= Len(s) /\ IsDigit(s[i]) /\ s[i + 1] = "." /\ IsDigit(s[i + 2])

CarriesLocationContext(s) ==
    StateIndicator(s) \/ CountryIndicator(s) \/ ZipCode(s) \/ CoordinatePattern(s)

(* C22: the region hint is appended to a candidate's query exactly when    *)
(* the candidate text carries no location context (no state or country     *)
(* indicator, ZIP code or coordinate pattern); a query that carries such   *)
(* context is the candidate text unchanged.                                *)
C22_RegionHint ==
    \A i \in 1..Len(searchQueries) :
        LET text == searchQueries[i].name
            query == searchQueries[i].searchQuery
        IN  IF CarriesLocationContext(text)
            THEN query = text
            ELSE query = text \o RegionHint


(* What holds instead, and of the script alone: it appends the hint        *)
(* exactly when the text has no state indicator, ZIP code or coordinate    *)
(* pattern; a country is not looked for.                                   *)
C22_DetectedContext ==
    \A i \in 1..Len(searchQueries) :
        LET text == searchQueries[i].name
            query == searchQueries[i].searchQuery
        IN  searchQueries[i].by = "testEnhancedGeocoding" =>
                IF StateIndicator(text) \/ ZipCode(text) \/ CoordinatePattern(text)
                THEN query = text
                ELSE query = text \o RegionHint


----------------------------------------------------------------------------
(* Claims about confidence *)

(* a confidence, in tenths, within [0, 1] *)
UnitInterval(x) == ~x.nan /\ 0 <= x.val /\ x.val <= 10

(* C23: the confidence of every geocoded location lies in [0, 1], whatever *)
(* importance the provider returned for it.                                *)
C23_ConfidenceRange ==
    \A c \in Callers : \A i \in 1..Len(out[c]) :
        out[c][i].success => UnitInterval(out[c][i].confidence)


----------------------------------------------------------------------------
(* Claims about the range of the metrics *)

(* a fraction within [0, 1] *)
InUnit(x) == x.den > 0 /\ 0 <= x.num /\ x.num <= x.den

MetricsInUnit(m, matched, found_total, expected_total) ==
    /\ InUnit(m.precision) /\ InUnit(m.recall) /\ InUnit(m.f1_score)
    /\ matched <= found_total
    /\ matched <= expected_total

(* C24: precision, recall and F1 each lie in [0, 1]; the number of matches *)
(* exceeds neither the number of extractions nor the number of             *)
(* ground-truth records, for each file and overall.                        *)
C24_MetricsInUnitInterval ==
    /\ comparison.done =>
           MetricsInUnit(comparison, Len(comparison.matches), Len(extractions), Len(groundTruth))
    /\ panelComparison.done =>
           /\ MetricsInUnit(panelComparison.overall, panelComparison.overall.matches,
                            panelComparison.overall.found_total,
                            panelComparison.overall.expected_total)
           /\ \A f \in 1..Len(panelComparison.files) :
                  MetricsInUnit(panelComparison.files[f], Len(panelComparison.files[f].matches),
                                Len(panelComparison.files[f].found),
                                Len(panelComparison.files[f].expected))


----------------------------------------------------------------------------
(* Claims about the processing state of OCRProcessor *)

(* the runs of processFiles that have started and not yet finished *)
InProgress == { r \in Runs : runPc[r] \in {"ocr", "backend"} }

(* C25: isProcessing is true whenever at least one run of processFiles is  *)
(* in progress, also when a second run started before the first finished.  *)
C25_ProcessingWhileRunning ==
    InProgress # {} => isProcessing


----------------------------------------------------------------------------
(* Claims about the progress display of the upload *)

(* the backend run of the upload component has failed: its catch block ran *)
UploadFailed == upPc = "done" /\ upError # ""

(* C26: after a failed backend run, once the progress status is 'idle' it  *)
(* stays 'idle' (no new run starts in this model): the simulated-progress  *)
(* timer does not set it back to 'processing'.                             *)
C26_IdleAfterFailure ==
    [][(UploadFailed /\ upStatus = "idle") => upStatus' = "idle"]_vars


----------------------------------------------------------------------------
(* Claims about the OCR panel and the end of a run *)

(* C27: a run started from the OCR panel with processing mode M selected   *)
(* processes its files in mode M.                                          *)
C27_SelectedModeUsed ==
    \A r \in Runs : runWanted[r] # "none" => runMode[r] = runWanted[r]


(* C28: every run of processFiles over a non-empty file list comes to its  *)
(* end, and the step that ends it leaves isProcessing false, progress 0    *)
(* and currentFile empty, whether the files were processed, some failed or *)
(* the backend request threw.                                              *)
C28_RunEndsReset ==
    /\ [][\A r \in Runs :
            (runPc[r] # "done" /\ runPc'[r] = "done" /\ runFiles'[r] # <<>>)
                => (~isProcessing' /\ progress' = 0 /\ currentFile' = "")]_vars
    /\ \A r \in Runs : (runPc[r] \in {"ocr", "backend"}) ~> (runPc[r] = "done")

(* a run whose backend request threw has ended, and the state is reset *)
C28_Witness ==
    \E r \in Runs :
        /\ runPc[r] = "done"
        /\ runFiles[r] # <<>>
        /\ delivered[r].type = "error"
        /\ ~isProcessing /\ progress = 0 /\ currentFile = ""


(* the workers of run r that have not been terminated *)
Running(r) == { k \in 1..Len(workers[r]) : workers[r][k] = "running" }

(* C29: every Tesseract worker created for a file is terminated before the *)
(* processing of that file ends, on success and on every failure, so no    *)
(* worker is running once processFiles has completed.                      *)
C29_WorkersTerminated ==
    /\ [][\A r \in Runs : runI'[r] # runI[r] => Running(r)' = {}]_vars
    /\ [](\A r \in Runs : runPc[r] = "done" => Running(r) = {})

(* a run has completed whose first file failed in a worker and whose       *)
(* second file was recognized: both workers are terminated                 *)
C29_Witness ==
    \E r \in Runs :
        /\ runPc[r] = "done"
        /\ Len(workers[r]) = 2
        /\ Running(r) = {}
        /\ ~runResults[r][1].success
        /\ runResults[r][2].success


----------------------------------------------------------------------------
(* Claims about the file list of the upload *)

(* C30: whenever additions and removals have left the file list empty, the *)
(* stored OCR results and the stored OCR error are cleared (both null).    *)
C30_EmptyListCleared ==
    uploadedFiles = <<>> => (upDelivered = NoResult /\ upError = "")

=============================================================================
